---- MODULE Spec2Model ----
(***************************************************************************)
(* SceneCraft editor: the protobuf wire reader (ProtoReader, src/App.tsx), *)
(* the two message decoders and processResponse built on it, and the asset *)
(* / gizmo synchronisation of the 3D viewer                                *)
(* (src/components/ThreeDViewer.tsx) driven by the application handlers    *)
(* (src/unnamed/part_000, the App component with delete / visibility).     *)
(*                                                                         *)
(* The specifications share the variables:                                 *)
(*   VarintSpec    readVarint applied to canonical encodings               *)
(*   ReaderSpec    any sequence of ProtoReader calls on any small buffer   *)
(*   DecodeSpec    decodeStructure3D / decodeCameraIntrinsics, one loop    *)
(*                 pass per step, on messages built from field chunks      *)
(*   ResponseSpec  processResponse on responses of a few parts             *)
(*   SceneSpec     App handlers, React effects and loader callbacks        *)
(*   SucceedSpec   SceneSpec without failing loads                         *)
(*   UploadSpec    handleFileUpload on batches of file names               *)
(*   TransformSpec placements: panel edits, gizmo drags, the guard         *)
(*   ToggleSpec    placements and the visibility toggle                    *)
(*   ArchiveSpec   export of the scene and import of the exported archive  *)
(*   ImportSpec    import of archives with missing and unsupported files   *)
(*   StartSpec     the Start button, with uploads, loads and selection     *)
(*   NameSpec      handleSaveScene over file names and identities          *)
(*   FailSpec      handleLoadScene ending in its catch block               *)
(***************************************************************************)
EXTENDS Integers, Sequences, FiniteSets, TLC

VARIABLES
    bytes,      \* ProtoReader.bytes: the buffer, a sequence of 0..255
    i,          \* ProtoReader.i: the cursor (a JS number: may leave 0..length)
    last,       \* the last reader call: what was called, from where, its outcome
    assets,     \* App state `assets`: sequence of [id, visible, ...]
    activeAssetId,  \* App state `activeAssetId` (None = null)
    nextId,     \* the next identity crypto.randomUUID() hands out
    viewer,     \* the viewer's refs: modelsRef, scene children, gizmo, box helper, loads
    log,        \* the scene events of the last handler, in program order
    dec,        \* the decoder running on `bytes`: its locals and where it stands
    intrinsics, \* App state `intrinsics`
    resp,       \* the last response handed to processResponse, and what held before
    activeAssetTransform,       \* App state `activeAssetTransform` (NoTransform = null)
    isUpdatingProgrammatically, \* the viewer's re-entrancy guard (a ref)
    timeouts,   \* setTimeout callbacks of the apply-transform effect not yet run
    placement,  \* position, rotation (radians) and scale of each live render object
    call,       \* the last file handler called: its input and the App state before it
    archive,    \* the archive handleSaveScene wrote last
    isLoading   \* App state `isLoading`

readerVars == <<bytes, i, last>>
sceneVars == <<assets, activeAssetId, nextId, viewer, log>>
appVars == <<dec, intrinsics, resp>>
transformVars == <<activeAssetTransform, isUpdatingProgrammatically, timeouts, placement>>
fileVars == <<call, archive, isLoading>>
vars == <<bytes, i, last, assets, activeAssetId, nextId, viewer, log, dec, intrinsics, resp,
          activeAssetTransform, isUpdatingProgrammatically, timeouts, placement,
          call, archive, isLoading>>

----------------------------------------------------------------------------
(* Bounds *)

\* longest buffer handed to a reader in ReaderSpec
MaxBufLen == 5
\* how far the cursor is followed outside 0..length (it is unbounded in the code)
MaxOver == 6
\* VarintSpec: every value 0..MaxSmall is round-tripped, besides the boundary values
MaxSmall == 130
\* SceneSpec: identities handed out (assets ever created)
MaxAssets == 3
\* SceneSpec: loads ever requested (the code requests them without limit)
MaxLoads == 3
\* SceneSpec: files of one upload
MaxBatch == 2
\* VarintSpec: bytes placed before the encoding (the cursor starts after them)
MaxPad == 2
\* DecodeSpec: field chunks a message is built from
MaxFields == 2
\* TransformSpec: guard-release timeouts pending at once
MaxTimeouts == 2
\* TransformSpec: assets ever uploaded
MaxPlaced == 2
\* TransformSpec: loads ever requested
MaxPlacedLoads == 2
\* ImportSpec: entries of a manifest
MaxEntries == 2
\* ResponseSpec: parts of a response
MaxParts == 2

----------------------------------------------------------------------------
(* 32-bit integers of JavaScript's bitwise operators, as sets of bit positions *)

RECURSIVE Pow2(_)
Pow2(k) == IF k = 0 THEN 1 ELSE 2 * Pow2(k - 1)

BitOf(b, k) == (b \div Pow2(k)) % 2

RECURSIVE SumBits(_)
SumBits(S) == IF S = {} THEN 0
              ELSE LET k == CHOOSE x \in S : TRUE IN Pow2(k) + SumBits(S \ {k})

\* ToInt32 of the word whose set bits are S: bit 31 is the sign bit
\* (2^31 itself is not a 32-bit integer, so the sign is subtracted in two steps)
ToInt32(S) == IF 31 \in S
              THEN (SumBits(S \ {31}) - 2147483647) - 1
              ELSE SumBits(S)

\* (byte & 0x7f) << shift: the count is taken modulo 32, bits past 31 are lost
ShiftedBits(byte, shift) ==
    { k + (shift % 32) : k \in { b \in 0..6 : BitOf(byte, b) = 1 } } \cap (0..31)

\* JS numbers are doubles: cursor + length never wraps. The cursor is followed
\* only within the window, so an operand beyond +-Far is cut to +-Far.
Far == Pow2(20)
Clamp(n) == IF n > Far THEN Far ELSE IF n < -Far THEN -Far ELSE n
\* the element of a one-element set (used to name a value computed once)
The(S) == CHOOSE x \in S : TRUE
Min(a, b) == IF a < b THEN a ELSE b
Max(a, b) == IF a > b THEN a ELSE b

----------------------------------------------------------------------------
(* ProtoReader *)

\* the outcome of one reader call: normal return (ok) or the exception thrown
Ret(c, v, sp) == [ok |-> TRUE, err |-> "none", i |-> c, val |-> v, span |-> sp]
Throw(e, c) == [ok |-> FALSE, err |-> e, i |-> c, val |-> 0, span |-> <<>>]

\* this.bytes[k]: undefined outside the array; undefined & m is 0
ByteAt(bs, k) == IF k >= 0 /\ k < Len(bs) THEN bs[k + 1] ELSE 0

isAtEnd(bs, c) == c >= Len(bs)

RECURSIVE VarintLoop(_, _, _, _)
VarintLoop(bs, c, result, shift) ==
    IF c >= Len(bs) THEN Throw("underflow", c)
    ELSE LET byte == ByteAt(bs, c)
             acc == result \cup ShiftedBits(byte, shift)
         IN IF byte >= 128 THEN VarintLoop(bs, c + 1, acc, shift + 7)
            ELSE Ret(c + 1, ToInt32(acc), <<>>)

\* Variant: the loop body runs once, whatever the continuation bit says
readVarintOneByte(bs, c) ==
    IF c >= Len(bs) THEN Throw("underflow", c)
    ELSE Ret(c + 1, ByteAt(bs, c) % 128, <<>>)

\* Variant: the end of the buffer is noticed one byte late (> for >=)
RECURSIVE VarintLoopLate(_, _, _, _)
VarintLoopLate(bs, c, result, shift) ==
    IF c > Len(bs) THEN Throw("underflow", c)
    ELSE LET byte == ByteAt(bs, c)
             acc == result \cup ShiftedBits(byte, shift)
         IN IF byte >= 128 THEN VarintLoopLate(bs, c + 1, acc, shift + 7)
            ELSE Ret(c + 1, ToInt32(acc), <<>>)

readVarintLateCheck(bs, c) == VarintLoopLate(bs, c, {}, 0)

readVarint(bs, c) == VarintLoop(bs, c, {}, 0)

\* tag >> 3 and tag & 7 on a signed 32-bit tag
readTag(bs, c) ==
    LET r == readVarint(bs, c)
    IN IF r.ok THEN [r EXCEPT !.span = <<r.val \div 8, r.val % 8>>] ELSE r

\* Uint8Array.prototype.subarray(begin, end): a negative index counts from the
\* end, both are clamped to 0..length, and end < begin gives the empty view
subarray(bs, begin, end) ==
    LET n == Len(bs)
        rb == IF begin < 0 THEN Max(n + begin, 0) ELSE Min(begin, n)
        re == IF end < 0 THEN Max(n + end, 0) ELSE Min(end, n)
    IN [k \in 1..Max(re - rb, 0) |-> bs[rb + k]]

readBytes(bs, c) ==
    LET r == readVarint(bs, c)
    IN IF ~r.ok THEN r
       ELSE Ret(r.i + Clamp(r.val), r.val, subarray(bs, r.i, r.i + Clamp(r.val)))

\* DataView.getFloat32 throws a RangeError for a negative offset
readFloat(bs, c) ==
    IF c + 4 > Len(bs) THEN Throw("underflow", c)
    ELSE IF c < 0 THEN Throw("range", c)
    ELSE Ret(c + 4, 0, [k \in 1..4 |-> bs[c + k]])

\* Variant: the group wire types 3 and 4 are passed over as fields without a value
skipFieldLenient(bs, c, wireType) ==
    CASE wireType = 0 -> LET r == readVarint(bs, c)
                         IN IF r.ok THEN Ret(r.i, 0, <<>>) ELSE r
      [] wireType = 1 -> Ret(c + 8, 0, <<>>)
      [] wireType = 2 -> LET r == readVarint(bs, c)
                         IN IF r.ok THEN Ret(r.i + Clamp(r.val), r.val, <<>>) ELSE r
      [] wireType = 5 -> Ret(c + 4, 0, <<>>)
      [] wireType \in {3, 4} -> Ret(c, 0, <<>>)
      [] OTHER -> Throw("wiretype", c)

\* Variant: the widths of the two fixed wire types are exchanged
skipFieldSwapped(bs, c, wireType) ==
    CASE wireType = 0 -> LET r == readVarint(bs, c)
                         IN IF r.ok THEN Ret(r.i, 0, <<>>) ELSE r
      [] wireType = 1 -> Ret(c + 4, 0, <<>>)
      [] wireType = 2 -> LET r == readVarint(bs, c)
                         IN IF r.ok THEN Ret(r.i + Clamp(r.val), r.val, <<>>) ELSE r
      [] wireType = 5 -> Ret(c + 8, 0, <<>>)
      [] OTHER -> Throw("wiretype", c)

\* Variant: a length-delimited value is not passed over, only its length is read
skipFieldNoLength(bs, c, wireType) ==
    CASE wireType = 0 -> LET r == readVarint(bs, c)
                         IN IF r.ok THEN Ret(r.i, 0, <<>>) ELSE r
      [] wireType = 1 -> Ret(c + 8, 0, <<>>)
      [] wireType = 2 -> LET r == readVarint(bs, c)
                         IN IF r.ok THEN Ret(r.i, r.val, <<>>) ELSE r
      [] wireType = 5 -> Ret(c + 4, 0, <<>>)
      [] OTHER -> Throw("wiretype", c)

skipField(bs, c, wireType) ==
    CASE wireType = 0 -> LET r == readVarint(bs, c)
                         IN IF r.ok THEN Ret(r.i, 0, <<>>) ELSE r
      [] wireType = 1 -> Ret(c + 8, 0, <<>>)
      [] wireType = 2 -> LET r == readVarint(bs, c)
                         IN IF r.ok THEN Ret(r.i + Clamp(r.val), r.val, <<>>) ELSE r
      [] wireType = 5 -> Ret(c + 4, 0, <<>>)
      [] OTHER -> Throw("wiretype", c)

----------------------------------------------------------------------------
(* MessageDecoders: decodeStructure3D and decodeCameraIntrinsics *)

\* A float is kept as the four little-endian bytes of its float32 pattern
\* (float32 to double is exact); every NaN pattern reads as the one value NaN.
NaN == <<0, 0, 192, 127>>

getFloat32(sp) ==
    IF sp[4] % 128 = 127 /\ sp[3] >= 128 /\ (sp[3] > 128 \/ sp[2] > 0 \/ sp[1] > 0)
    THEN NaN
    ELSE sp

\* the float32 patterns of 300, 400 and 500
F300 == <<0, 0, 150, 67>>
F400 == <<0, 0, 200, 67>>
F500 == <<0, 0, 250, 67>>

defaultIntrinsics ==
    [image_width |-> 800, image_height |-> 600, cx |-> F400, cy |-> F300,
     fx |-> F500, fy |-> F500]

\* new TextDecoder().decode(span), as the sequence of code points: an ASCII byte
\* is itself, a two-byte sequence is combined, a byte that starts no sequence
\* or lacks its continuation byte becomes U+FFFD. Three- and four-byte
\* sequences (lead bytes 224..244) do not occur in the labels of the messages.
RECURSIVE TextDecode(_)
TextDecode(sp) ==
    IF sp = <<>> THEN <<>>
    ELSE LET b == sp[1]
             rest == [k \in 1..(Len(sp) - 1) |-> sp[k + 1]]
         IN IF b < 128 THEN <<b>> \o TextDecode(rest)
            ELSE IF b \in 194..223 /\ rest # <<>> /\ rest[1] \in 128..191
                 THEN <<(b - 192) * 64 + (rest[1] - 128)>>
                      \o TextDecode([k \in 1..(Len(rest) - 1) |-> rest[k + 1]])
                 ELSE <<65533>> \o TextDecode(rest)

\* let fileType = 0; let data = new Uint8Array(); let label = ''
Structure3DDefaults == [fileType |-> 0, data |-> <<>>, label |-> <<>>]

\* what one pass of a decode loop leaves: the reader call that ended it (its
\* cursor, and its exception if it threw) and the locals
Pass(r, s) == [ok |-> r.ok, err |-> r.err, i |-> r.i, slots |-> s]

\* Variant: a value is stored only while the slot still holds its default
\* (the first occurrence wins)
AssignFirst(r, s, f, v) ==
    Pass(r, IF r.ok /\ s[f] = (Structure3DDefaults @@ defaultIntrinsics)[f]
            THEN [s EXCEPT ![f] = v]
            ELSE s)

\* slot = reader.readX(): the slot is set when the read returns
Assign(r, s, f, v) ==
    Pass(r, IF r.ok THEN [s EXCEPT ![f] = v] ELSE s)

\* the loop body of decodeStructure3D, run once from cursor c with locals s
Structure3DField(bs, c, s) ==
    LET t == readTag(bs, c)
    IN IF ~t.ok THEN Pass(t, s)
       ELSE LET fieldNumber == t.span[1]
                wireType == t.span[2]
            IN CASE fieldNumber = 1 /\ wireType = 0 ->
                        LET r == readVarint(bs, t.i) IN Assign(r, s, "fileType", r.val)
                 [] fieldNumber = 2 /\ wireType = 2 ->
                        LET r == readBytes(bs, t.i) IN Assign(r, s, "data", r.span)
                 [] fieldNumber = 3 /\ wireType = 2 ->
                        LET r == readBytes(bs, t.i)
                        IN Assign(r, s, "label", TextDecode(r.span))
                 [] OTHER -> Pass(skipField(bs, t.i, wireType), s)

\* the slot of each registered field number of CameraIntrinsics
IntrinsicsSlot == <<"image_width", "image_height", "cx", "cy", "fx", "fy">>

\* Variant: the handlers of fields 1 and 2 read a varint whatever the wire type
CameraIntrinsicsFieldUntyped(bs, c, s) ==
    LET t == readTag(bs, c)
    IN IF ~t.ok THEN Pass(t, s)
       ELSE LET fieldNumber == t.span[1]
                wireType == t.span[2]
            IN CASE fieldNumber \in {1, 2} ->
                        LET r == readVarint(bs, t.i)
                        IN Assign(r, s, IntrinsicsSlot[fieldNumber], r.val)
                 [] fieldNumber \in 3..6 /\ wireType = 5 ->
                        LET r == readFloat(bs, t.i)
                        IN Assign(r, s, IntrinsicsSlot[fieldNumber],
                                  IF r.ok THEN getFloat32(r.span) ELSE NaN)
                 [] OTHER -> Pass(skipField(bs, t.i, wireType), s)

\* the loop body of decodeCameraIntrinsics
CameraIntrinsicsField(bs, c, s) ==
    LET t == readTag(bs, c)
    IN IF ~t.ok THEN Pass(t, s)
       ELSE LET fieldNumber == t.span[1]
                wireType == t.span[2]
            IN CASE fieldNumber \in {1, 2} /\ wireType = 0 ->
                        LET r == readVarint(bs, t.i)
                        IN Assign(r, s, IntrinsicsSlot[fieldNumber], r.val)
                 [] fieldNumber \in 3..6 /\ wireType = 5 ->
                        LET r == readFloat(bs, t.i)
                        IN Assign(r, s, IntrinsicsSlot[fieldNumber],
                                  IF r.ok THEN getFloat32(r.span) ELSE NaN)
                 [] OTHER -> Pass(skipField(bs, t.i, wireType), s)

\* the same loop with an empty handler table: every field goes to skipField
SkipAllField(bs, c, s) ==
    LET t == readTag(bs, c)
    IN IF ~t.ok THEN Pass(t, s) ELSE Pass(skipField(bs, t.i, t.span[2]), s)

Decoders == {"Structure3D", "CameraIntrinsics", "SkipAll"}

LoopBody(kind, bs, c, s) ==
    CASE kind = "Structure3D" -> Structure3DField(bs, c, s)
      [] kind = "CameraIntrinsics" -> CameraIntrinsicsField(bs, c, s)
      [] kind = "SkipAll" -> SkipAllField(bs, c, s)

InitialSlots(kind) ==
    CASE kind = "Structure3D" -> Structure3DDefaults
      [] kind = "CameraIntrinsics" -> defaultIntrinsics
      [] kind = "SkipAll" -> [none |-> 0]

\* while (!reader.isAtEnd()) { ... } return ...: the whole call, as a function
\* of the bytes. What a pass does depends on the cursor alone, so a cursor met
\* twice at the loop head means the loop never ends ("hang").
RECURSIVE DecodeLoop(_, _, _, _, _)
DecodeLoop(kind, bs, c, s, seen) ==
    IF isAtEnd(bs, c) THEN [phase |-> "returned", err |-> "none", i |-> c, slots |-> s]
    ELSE IF c \in seen THEN [phase |-> "hang", err |-> "none", i |-> c, slots |-> s]
    ELSE The({ IF r.ok THEN DecodeLoop(kind, bs, r.i, r.slots, seen \cup {c})
               ELSE [phase |-> "aborted", err |-> r.err, i |-> r.i, slots |-> s] :
               r \in {LoopBody(kind, bs, c, s)} })

decodeStructure3D(bs) == DecodeLoop("Structure3D", bs, 0, Structure3DDefaults, {})

decodeCameraIntrinsics(bs) == DecodeLoop("CameraIntrinsics", bs, 0, defaultIntrinsics, {})

----------------------------------------------------------------------------
(* Scene data: the App state and the viewer's refs *)

None == 0
Ids == 1..MaxAssets

\* a render object (the wrapper Group an onLoad builds): the load that built it
\* and the asset identity it was built for
NoObj == [ser |-> 0, id |-> None]

\* modelsRef (empty), scene children (asset wrappers, Box3Helpers),
\* transformControls.object, boundingBoxRef, and the loads in flight
EmptyViewer ==
    [models |-> [a \in Ids |-> NoObj],
     scene |-> {},
     object |-> NoObj,
     boxRef |-> NoObj,
     helpers |-> 0,
     loads |-> {},
     nextSer |-> 1]

\* no decoder has been started
NoDecoder ==
    [kind |-> "none", phase |-> "idle", err |-> "none", slots |-> [none |-> 0],
     prev |-> [none |-> 0], from |-> 0, stepped |-> FALSE, seen |-> {}]

\* no response has been processed
NoResponse == [parts |-> <<>>, outcome |-> <<>>, trace |-> <<>>, hung |-> FALSE]

\* activeAssetTransform === null, asset.initialTransform === undefined
NoTransform == [null |-> TRUE]

\* no render object is live: nothing has a placement
NoPlacement == [ser \in {} |-> 0]

\* no file handler has been called
NoFileCall == [op |-> "none"]

\* handleSaveScene has not written an archive
NoArchive == [written |-> FALSE]

----------------------------------------------------------------------------
(* Reader state machine: one action per ProtoReader method *)

NoCall == [op |-> "none", from |-> 0, wt |-> 0, ok |-> TRUE, err |-> "none",
           val |-> 0, span |-> <<>>]

Called(op, wt, r) == [op |-> op, from |-> i, wt |-> wt, ok |-> r.ok, err |-> r.err,
                      val |-> r.val, span |-> r.span]

\* the cursor is followed while it stays within MaxOver of the buffer
InWindow(c) == c >= -MaxOver /\ c <= Len(bytes) + MaxOver

\* byte values of the buffers: a one-byte varint (1), a length larger than any
\* buffer and the sign bits of a fifth byte (15), continuation bytes (250, 255)
ByteVals == {1, 15, 250, 255}

Buffers == UNION { [1..n -> ByteVals] : n \in 0..MaxBufLen }

SceneIdle ==
    /\ assets = <<>>
    /\ activeAssetId = None
    /\ nextId = 1
    /\ viewer = EmptyViewer
    /\ log = <<>>
    /\ dec = NoDecoder
    /\ intrinsics = defaultIntrinsics
    /\ resp = NoResponse
    /\ activeAssetTransform = NoTransform
    /\ isUpdatingProgrammatically = FALSE
    /\ timeouts = 0
    /\ placement = NoPlacement
    /\ call = NoFileCall
    /\ archive = NoArchive
    /\ isLoading = FALSE

Call(op, wt, r) ==
    /\ InWindow(r.i)
    /\ i' = r.i
    /\ last' = Called(op, wt, r)
    /\ UNCHANGED <<bytes, assets, activeAssetId, nextId, viewer, log, dec, intrinsics, resp, transformVars, fileVars>>

ReadVarint == Call("readVarint", 0, readVarint(bytes, i))

ReadTag == Call("readTag", 0, readTag(bytes, i))

ReadBytes == Call("readBytes", 0, readBytes(bytes, i))

ReadFloat == Call("readFloat", 0, readFloat(bytes, i))

SkipField == \E wireType \in 0..7 : Call("skipField", wireType, skipField(bytes, i, wireType))

ReaderInit ==
    /\ bytes \in Buffers
    /\ i = 0
    /\ last = NoCall
    /\ SceneIdle

ReaderNext ==
    \/ ReadVarint
    \/ ReadTag
    \/ ReadBytes
    \/ ReadFloat
    \/ SkipField

ReaderSpec == ReaderInit /\ [][ReaderNext]_vars

----------------------------------------------------------------------------
(* readVarint on canonical encodings *)

\* the standard base-128 encoding of n >= 0: 7 bits per byte, low group first,
\* high bit set on every byte but the last
RECURSIVE EncodeVarint(_)
EncodeVarint(n) == IF n < 128 THEN <<n>>
                   ELSE <<128 + (n % 128)>> \o EncodeVarint(n \div 128)

\* the values round-tripped: a dense range, and the values around each change of
\* the encoded length, up to 2^31 - 1
RoundTripValues ==
    (0..MaxSmall)
    \cup UNION { {Pow2(k) - 1, Pow2(k), Pow2(k) + 1} : k \in {7, 14, 21, 28, 30} }
    \cup {2147483647, 2147483646, 1431655765, 305419896}

PadBytes(n) == [k \in 1..n |-> 255]

VarintInit ==
    /\ \E n \in RoundTripValues, pad \in 0..MaxPad, tail \in {<<>>, <<255>>, <<1>>} :
          /\ bytes = PadBytes(pad) \o EncodeVarint(n) \o tail
          /\ i = pad
    /\ last = NoCall
    /\ SceneIdle

VarintRead ==
    /\ last.op = "none"
    /\ ReadVarint

VarintNext == VarintRead

VarintSpec == VarintInit /\ [][VarintNext]_vars

\* the bytes of e lie in bs from cursor c on
StartsWith(bs, c, e) ==
    /\ c >= 0
    /\ c + Len(e) <= Len(bs)
    /\ \A k \in 1..Len(e) : bs[c + k] = e[k]

\* C6: readVarint called at the start of the standard encoding of n < 2^31
\* returns exactly n and leaves the cursor right after the encoding.
C6_VarintRoundTrip ==
    last.op = "readVarint" =>
        \A n \in RoundTripValues :
            LET e == EncodeVarint(n)
            IN StartsWith(bytes, last.from, e)
               => /\ last.ok
                  /\ last.val = n
                  /\ i = last.from + Len(e)

\* a five-byte encoding (a value of 2^28 or more) was read from a non-zero cursor
C6_Witness ==
    /\ last.op = "readVarint"
    /\ last.from = 2
    /\ last.ok
    /\ last.val = 2147483647
    /\ i = 7
    /\ StartsWith(bytes, 2, EncodeVarint(2147483647))

----------------------------------------------------------------------------
(* Properties of the reader, stated over ReaderSpec *)

\* the number of bytes of the varint that starts at cursor c (0 if it never ends)
RECURSIVE VarintLen(_, _)
VarintLen(bs, c) ==
    IF c < 0 \/ c >= Len(bs) THEN 0
    ELSE IF bs[c + 1] < 128 THEN 1
    ELSE LET rest == VarintLen(bs, c + 1) IN IF rest = 0 THEN 0 ELSE rest + 1

\* the unsigned accumulation of (byte & 0x7F) * 2^(7k) over n bytes from cursor c
RECURSIVE Accumulate(_, _, _)
Accumulate(bs, c, n) ==
    IF n = 0 THEN 0 ELSE (bs[c + 1] % 128) + 128 * Accumulate(bs, c + 1, n - 1)

\* C7: every terminated varint is read as a non-negative integer, the
\* accumulation of its 7-bit groups (compared here where that sum is below 2^28,
\* i.e. up to four bytes), so tags and lengths are never negative.
C7_VarintUnsigned ==
    (last.op \in {"readVarint", "readTag", "readBytes", "skipField"} /\ last.ok) =>
        /\ last.val >= 0
        /\ (last.op = "readVarint" /\ VarintLen(bytes, last.from) \in 1..4)
              => last.val = Accumulate(bytes, last.from, VarintLen(bytes, last.from))

\* no byte with the high bit clear lies at or after cursor c
Truncated(bs, c) == \A k \in Max(c, 0)..(Len(bs) - 1) : bs[k + 1] >= 128

\* the calls that read a varint first
ReadsVarint(c) ==
    \/ c.op \in {"readVarint", "readTag", "readBytes"}
    \/ c.op = "skipField" /\ c.wt \in {0, 2}

\* C8: reading a truncated varint fails with BufferUnderflow from every cursor
\* position the reader can be in, and never returns a value.
C8_TruncatedVarintFails ==
    (ReadsVarint(last) /\ Truncated(bytes, last.from)) =>
        (~last.ok /\ last.err = "underflow")

\* readVarint started inside the buffer, consumed continuation bytes up to the
\* end and failed
C8_Witness ==
    /\ last.op = "readVarint"
    /\ last.from > 0
    /\ last.from + 2 <= Len(bytes)
    /\ Truncated(bytes, last.from)
    /\ ~last.ok
    /\ last.err = "underflow"
    /\ i = Len(bytes)

\* C9: readBytes never returns a span shorter than the declared length and
\* never moves the cursor past the end of the buffer: a length larger than the
\* bytes remaining is a BufferUnderflow.
C9_ReadBytesBoundChecked ==
    (last.op = "readBytes" /\ last.ok) =>
        /\ Len(last.span) = last.val
        /\ i <= Len(bytes)

\* C10: isAtEnd() is true exactly when the cursor equals the buffer length, in
\* every state any sequence of reader calls reaches.
C10_AtEndIffCursorAtLength == isAtEnd(bytes, i) <=> (i = Len(bytes))

\* C11: decoding is a single forward pass: no reader call, whether it returns
\* or throws, leaves the cursor before the position it was called at.
C11_CursorNeverDecreases == last.op # "none" => i >= last.from

----------------------------------------------------------------------------
(* DecodeSpec: a decoder applied to a message, one pass of its loop per step *)

\* The pieces messages are built from. Complete fields: field 1 varint (1, 3), field 2
\* varint, field 2 bytes, field 3 bytes (a two-byte UTF-8 sequence), field 5
\* float, field 3 float (a NaN pattern), and field 15 with each of the wire
\* types 0, 1, 2, 5. Broken pieces: the wire types 3 and 4, a tag without a
\* value, a length beyond the buffer, a length with the sign bit set (-6, the
\* size of its own field), a float cut short.
Chunks ==
    { <<8, 1>>, <<8, 3>>, <<16, 2>>, <<18, 1, 65>>, <<26, 2, 195, 169>>,
      <<45, 0, 0, 128, 63>>, <<29, 1, 0, 192, 127>>,
      <<120, 5>>, <<121, 8, 7, 8, 7, 8, 7, 8, 7>>, <<122, 1, 7>>, <<125, 0, 0, 0, 64>>,
      <<11>>, <<124>>, <<8>>, <<18, 15, 65>>,
      <<18, 250, 255, 255, 255, 15>>, <<45, 0, 0>> }

RECURSIVE Concat(_)
Concat(ss) == IF ss = <<>> THEN <<>>
              ELSE ss[1] \o Concat([k \in 1..(Len(ss) - 1) |-> ss[k + 1]])

Messages == { Concat(ss) : ss \in UNION { [1..n -> Chunks] : n \in 0..MaxFields } }

NewDecoder(kind) ==
    [kind |-> kind, phase |-> "loop", err |-> "none", slots |-> InitialSlots(kind),
     prev |-> InitialSlots(kind), from |-> 0, stepped |-> FALSE, seen |-> {}]

\* one step of the decoder `kind`: the loop test, then return or one pass.
\* `from` and `prev` keep the cursor and the locals the last pass started with,
\* `seen` the cursors all earlier passes started at.
DecodePass(kind) ==
    /\ dec.kind = kind
    /\ dec.phase = "loop"
    /\ IF isAtEnd(bytes, i)
       THEN /\ dec' = [dec EXCEPT !.phase = "returned"]
            /\ i' = i
       ELSE LET r == LoopBody(kind, bytes, i, dec.slots)
            IN /\ i' = r.i
               /\ dec' = [dec EXCEPT !.phase = IF r.ok THEN "loop" ELSE "aborted",
                                     !.err = r.err,
                                     !.slots = r.slots,
                                     !.prev = dec.slots,
                                     !.from = i,
                                     !.stepped = TRUE,
                                     !.seen = @ \cup {i}]
    /\ UNCHANGED <<bytes, last, assets, activeAssetId, nextId, viewer, log, intrinsics, resp, transformVars, fileVars>>

DecodeStructure3D == DecodePass("Structure3D")

DecodeCameraIntrinsics == DecodePass("CameraIntrinsics")

DecodeSkipAll == DecodePass("SkipAll")

\* decodeX(protoBytes): new ProtoReader(protoBytes) and the locals at their defaults
DecodeCall ==
    /\ dec.phase = "idle"
    /\ \E kind \in Decoders, protoBytes \in Messages :
          /\ bytes' = protoBytes
          /\ dec' = NewDecoder(kind)
    /\ i' = 0
    /\ UNCHANGED <<last, assets, activeAssetId, nextId, viewer, log, intrinsics, resp, transformVars, fileVars>>

DecodeInit ==
    /\ bytes = <<>>
    /\ i = 0
    /\ last = NoCall
    /\ SceneIdle

DecodeNext ==
    \/ DecodeCall
    \/ DecodeStructure3D
    \/ DecodeCameraIntrinsics
    \/ DecodeSkipAll

DecodeSpec == DecodeInit /\ [][DecodeNext]_vars

\* C12: both decoders terminate on every input. What a pass reads and where it
\* leaves the cursor depends on the bytes and the cursor alone, so a decoder
\* that terminates never stands at the loop test with a cursor an earlier pass
\* started at; one that does repeats the same passes for ever.
C12_DecodersTerminate ==
    (dec.kind \in {"Structure3D", "CameraIntrinsics"} /\ dec.phase = "loop") =>
        i \notin dec.seen

\* the tag the last pass read
LastTag == readTag(bytes, dec.from)

\* C13: a field whose wire type is not 0, 1, 2 or 5 aborts the decoder with
\* UnknownWireType, whatever its field number; the decoder returns no result.
C13_UnknownWireTypeAborts ==
    (dec.kind \in {"Structure3D", "CameraIntrinsics"} /\ dec.stepped
        /\ LastTag.ok /\ LastTag.span[2] \notin {0, 1, 2, 5}) =>
        /\ dec.phase = "aborted"
        /\ dec.err = "wiretype"

\* field 1, a registered number of both decoders, arrived with wire type 3
\* after an earlier field was decoded, and the decoder aborted
C13_Witness ==
    /\ dec.kind = "Structure3D"
    /\ dec.stepped
    /\ dec.from > 0
    /\ LastTag.ok
    /\ LastTag.span = <<1, 3>>
    /\ dec.phase = "aborted"
    /\ dec.err = "wiretype"
    /\ dec.prev.fileType = 1

\* The wire format, read independently of ProtoReader: the unsigned value of the
\* varint at c when it ends within five bytes and is below 2^31, else -1
UVarint(bs, c) ==
    LET n == VarintLen(bs, c)
    IN IF n = 0 \/ n > 5 THEN -1
       ELSE IF n = 5 /\ bs[c + 5] >= 8 THEN -1
       ELSE Accumulate(bs, c, n)

\* the fields of the message in bs from c on: number, wire type, where the tag
\* and the value start and where the value ends; ok iff every field is complete
\* (a tag with a field number of 1 or more, a wire type of 0, 1, 2 or 5, and all
\* bytes of the value inside the buffer)
RECURSIVE Walk(_, _)
Walk(bs, c) ==
    IF c = Len(bs) THEN [ok |-> TRUE, fields |-> <<>>]
    ELSE LET tag == UVarint(bs, c)
             wt == tag % 8
             at == c + VarintLen(bs, c)
             size == CASE wt = 0 -> VarintLen(bs, at)
                       [] wt = 1 -> 8
                       [] wt = 5 -> 4
                       [] wt = 2 -> IF UVarint(bs, at) < 0 THEN 0
                                    ELSE VarintLen(bs, at) + UVarint(bs, at)
                       [] OTHER -> 0
         IN IF tag < 8 \/ size = 0 \/ at + size > Len(bs)
            THEN [ok |-> FALSE, fields |-> <<>>]
            ELSE LET rest == Walk(bs, at + size)
                 IN [ok |-> rest.ok,
                     fields |-> <<[num |-> tag \div 8, wt |-> wt, tag |-> c,
                                   at |-> at, end |-> at + size]>> \o rest.fields]

WellFormed(bs) == Walk(bs, 0).ok

\* the handler tables: the wire type the decoder expects for a field number
\* (-1 for a number without a handler)
ExpectedWireType(kind, num) ==
    CASE kind = "Structure3D" /\ num = 1 -> 0
      [] kind = "Structure3D" /\ num \in {2, 3} -> 2
      [] kind = "CameraIntrinsics" /\ num \in {1, 2} -> 0
      [] kind = "CameraIntrinsics" /\ num \in 3..6 -> 5
      [] OTHER -> -1

FullDecoders == {"Structure3D", "CameraIntrinsics"}

\* what the decoder without handlers does from the cursor the last pass started at
LastSkipped == SkipAllField(bytes, dec.from, [none |-> 0])

\* C14: on a well-formed message every decoder, the one without handlers
\* included, runs without error, each pass moves the cursor forward to exactly
\* where the decoder without handlers leaves it after the same field, and the
\* loop ends with the cursor at the end of the buffer.
C14_SkipCorrect ==
    (dec.phase # "idle" /\ WellFormed(bytes)) =>
        /\ dec.phase # "aborted"
        /\ dec.stepped => (LastSkipped.ok /\ LastSkipped.i = i /\ i > dec.from)
        /\ dec.phase = "returned" => i = Len(bytes)
        /\ i <= Len(bytes)

\* decodeCameraIntrinsics returned on a well-formed message of two fields whose
\* last field it read with readFloat
C14_Witness ==
    /\ dec.kind = "CameraIntrinsics"
    /\ dec.phase = "returned"
    /\ WellFormed(bytes)
    /\ Len(Walk(bytes, 0).fields) = 2
    /\ LastTag.span = <<5, 5>>
    /\ dec.slots.fx # dec.prev.fx
    /\ i = Len(bytes)

\* the message before its last field
BeforeLastField(bs) ==
    LET fs == Walk(bs, 0).fields
    IN [k \in 1..fs[Len(fs)].tag |-> bs[k]]

\* the last field of a well-formed message has no handler in decoder `kind`
EndsWithUnknownField(kind, bs) ==
    LET w == Walk(bs, 0)
    IN /\ w.ok
       /\ w.fields # <<>>
       /\ ExpectedWireType(kind, w.fields[Len(w.fields)].num) = -1

\* C15: a valid message with one more field appended, of an unregistered number
\* and a known wire type, decodes to the same values as the message alone.
C15_UnknownFieldTolerated ==
    (dec.kind \in FullDecoders /\ dec.phase \in {"returned", "aborted"}
        /\ EndsWithUnknownField(dec.kind, bytes)) =>
        LET alone == DecodeLoop(dec.kind, BeforeLastField(bytes), 0,
                                InitialSlots(dec.kind), {})
        IN /\ dec.phase = "returned"
           /\ alone.phase = "returned"
           /\ dec.slots = alone.slots

\* decodeStructure3D returned a payload and a label read before an appended
\* field 15
C15_Witness ==
    /\ dec.kind = "Structure3D"
    /\ dec.phase = "returned"
    /\ EndsWithUnknownField("Structure3D", bytes)
    /\ LastTag.span[1] = 15
    /\ dec.slots.data = <<65>>
    /\ BeforeLastField(bytes) = <<18, 1, 65>>

\* the last pass read a registered field number with a wire type other than
\* the one its handler expects
LastMismatched ==
    /\ dec.kind \in FullDecoders
    /\ dec.stepped
    /\ LastTag.ok
    /\ ExpectedWireType(dec.kind, LastTag.span[1]) # -1
    /\ LastTag.span[2] # ExpectedWireType(dec.kind, LastTag.span[1])

\* C16: a registered field number with another wire type is handled as the
\* decoder without handlers handles it: the value is passed over, every slot
\* keeps its value, and the loop goes on; an error arises only where passing
\* over the value itself fails (a value cut short, a wire type that cannot be
\* skipped).
C16_MismatchSkipped ==
    LastMismatched =>
        /\ dec.slots = dec.prev
        /\ i = LastSkipped.i
        /\ (dec.phase = "aborted") = ~LastSkipped.ok
        /\ (dec.phase = "aborted") => dec.err = LastSkipped.err

\* decodeCameraIntrinsics passed over field 2 carried as bytes, kept the
\* image_height an earlier field 2 had set, and went on to the end
C16_Witness ==
    /\ LastMismatched
    /\ dec.kind = "CameraIntrinsics"
    /\ LastTag.span = <<2, 2>>
    /\ dec.phase = "returned"
    /\ dec.slots.image_height = 2
    /\ dec.from > 0

\* the value field f of the message carries, read from the wire format
ValueOf(bs, f, slot) ==
    CASE f.wt = 0 -> UVarint(bs, f.at)
      [] f.wt = 5 -> getFloat32([k \in 1..4 |-> bs[f.at + k]])
      [] f.wt = 2 ->
            LET body == [k \in 1..UVarint(bs, f.at) |-> bs[f.end - UVarint(bs, f.at) + k]]
            IN IF slot = "label" THEN TextDecode(body) ELSE body

\* the field numbers of each slot
SlotNumber ==
    [fileType |-> 1, data |-> 2, label |-> 3, image_width |-> 1, image_height |-> 2,
     cx |-> 3, cy |-> 4, fx |-> 5, fy |-> 6]

\* the occurrences of a slot's field in the message with the expected wire type
Occurrences(kind, bs, slot) ==
    LET fs == Walk(bs, 0).fields
    IN { k \in 1..Len(fs) : /\ fs[k].num = SlotNumber[slot]
                            /\ fs[k].wt = ExpectedWireType(kind, fs[k].num) }

\* C17: the decoder returns, for every slot, the value of the last occurrence
\* of its field with the expected wire type, and the default of a slot whose
\* field does not occur.
C17_LastWriteWins ==
    (dec.kind \in FullDecoders /\ dec.phase = "returned" /\ WellFormed(bytes)) =>
        \A slot \in DOMAIN dec.slots :
            LET occ == Occurrences(dec.kind, bytes, slot)
                fs == Walk(bytes, 0).fields
            IN IF occ = {}
               THEN dec.slots[slot] = InitialSlots(dec.kind)[slot]
               ELSE LET k == CHOOSE x \in occ : \A y \in occ : y <= x
                    IN dec.slots[slot] = ValueOf(bytes, fs[k], slot)

\* decodeStructure3D read field 1 twice and returned the second value, with
\* payload and label at their defaults
C17_Witness ==
    /\ dec.kind = "Structure3D"
    /\ dec.phase = "returned"
    /\ bytes = <<8, 1, 8, 3>>
    /\ dec.slots = [fileType |-> 3, data |-> <<>>, label |-> <<>>]

----------------------------------------------------------------------------
(* The viewer's effects (ThreeDViewer.tsx), as functions of the refs.          *)
(* A work record w = [v |-> refs, log |-> events so far] is threaded through.  *)

AssetIds(as) == { as[k].id : k \in 1..Len(as) }

\* the `assets` prop of the viewer: assets.filter(a => a.visible)
VisibleAssets(as) == SelectSeq(as, LAMBDA a : a.visible)

\* the render objects registered in modelsRef
Registered(v) == { v.models[a] : a \in Ids } \ {NoObj}

\* one scene event, with the gizmo and the indicators as they are when it happens
Event(by, ev, obj, v) ==
    [by |-> by, ev |-> ev, obj |-> obj, ctl |-> v.object, boxes |-> v.helpers,
     ctlReg |-> (v.object = NoObj \/ v.object \in Registered(v))]

Emit(w, by, ev, obj) == [w EXCEPT !.log = Append(@, Event(by, ev, obj, w.v))]

\* TransformControls.detach()
Detach(w, by) == [Emit(w, by, "detach", w.v.object) EXCEPT !.v.object = NoObj]

\* Variant: the stale model is removed without looking at the gizmo
RECURSIVE RemoveStaleKeepGizmo(_, _, _)
RemoveStaleKeepGizmo(w, wanted, todo) ==
    IF todo = {} THEN w
    ELSE LET a == CHOOSE x \in todo : \A y \in todo : x <= y
             m == w.v.models[a]
         IN IF m # NoObj /\ a \notin wanted
            THEN RemoveStaleKeepGizmo(
                     [Emit(w, "reconcile", "remove", m)
                         EXCEPT !.v.scene = @ \ {m}, !.v.models[a] = NoObj],
                     wanted, todo \ {a})
            ELSE RemoveStaleKeepGizmo(w, wanted, todo \ {a})

\* the removal loop over modelsRef: a tracked identity that is no longer wanted
\* loses the gizmo (if it holds it), its scene object and its entry. The final
\* refs do not depend on the order of the entries; they are taken by identity.
RECURSIVE RemoveStale(_, _, _)
RemoveStale(w, wanted, todo) ==
    IF todo = {} THEN w
    ELSE LET a == CHOOSE x \in todo : \A y \in todo : x <= y
             m == w.v.models[a]
         IN IF m # NoObj /\ a \notin wanted
            THEN LET w1 == IF w.v.object = m THEN Detach(w, "reconcile") ELSE w
                     w2 == Emit(w1, "reconcile", "remove", m)
                 IN RemoveStale(
                        [w2 EXCEPT !.v.scene = @ \ {m}, !.v.models[a] = NoObj],
                        wanted, todo \ {a})
            ELSE RemoveStale(w, wanted, todo \ {a})

\* assets.forEach: an asset without an entry in modelsRef gets a load request
RECURSIVE StartLoads(_, _, _)
StartLoads(w, shown, k) ==
    IF k > Len(shown) THEN w
    ELSE LET a == shown[k].id
         IN IF w.v.models[a] = NoObj
            THEN LET l == [ser |-> w.v.nextSer, id |-> a]
                 IN StartLoads(
                        [Emit(w, "reconcile", "load", l)
                            EXCEPT !.v.loads = @ \cup {l}, !.v.nextSer = @ + 1],
                        shown, k + 1)
            ELSE StartLoads(w, shown, k + 1)

\* useEffect(..., [assets]): remove, then load. `changed` tells whether
\* setLoadedModelIds was called (once per removal, each with a new Set).
ReconcileEffect(w, shown) ==
    LET w1 == RemoveStale(w, AssetIds(shown), Ids)
        w2 == StartLoads(w1, shown, 1)
    IN [w |-> Emit(w2, "reconcile", "reconciled", NoObj),
        changed |-> (w1.v.models # w.v.models)]

\* Variant: the new target is attached without the clean-up that precedes it
SelectEffectNoCleanup(w, active) ==
    IF active # None /\ w.v.models[active] # NoObj
    THEN LET m == w.v.models[active]
             w3 == [Emit(w, "select", "attach", m) EXCEPT !.v.object = m]
             w4 == [Emit(w3, "select", "addBox", m)
                       EXCEPT !.v.helpers = @ + 1, !.v.boxRef = m]
         IN [w |-> Emit(w4, "select", "publish", m), published |-> TRUE]
    ELSE [w |-> Detach(w, "select"), published |-> FALSE]

\* useEffect(..., [activeAssetId, loadedModelIds, onTransformChange]): drop the
\* indicator, detach, then attach to the active model if it is tracked, add its
\* indicator and publish its placement (onTransformChange). Every loaded
\* geometry is taken to have a vertex, so its box is not empty.
SelectEffect(w, active) ==
    LET w1 == IF w.v.boxRef # NoObj
              THEN [Emit(w, "select", "removeBox", w.v.boxRef)
                       EXCEPT !.v.helpers = @ - 1, !.v.boxRef = NoObj]
              ELSE w
        w2 == Detach(w1, "select")
    IN IF active # None /\ w2.v.models[active] # NoObj
       THEN LET m == w2.v.models[active]
                w3 == [Emit(w2, "select", "attach", m) EXCEPT !.v.object = m]
                w4 == [Emit(w3, "select", "addBox", m)
                          EXCEPT !.v.helpers = @ + 1, !.v.boxRef = m]
            IN [w |-> Emit(w4, "select", "publish", m), published |-> TRUE]
       ELSE [w |-> w2, published |-> FALSE]

\* One React commit and the commits it causes. appRender: App re-rendered, so
\* the viewer got a new filtered array and the [assets] effect runs;
\* selDeps: activeAssetId or loadedModelIds changed. Effects run in the order
\* they are declared. A publish sets App state (a new transform object), so App
\* renders again; a removal sets loadedModelIds, so the selection effect runs
\* again. No other handler runs in between.
RECURSIVE Commit(_, _, _, _, _)
Commit(w, appRender, selDeps, as, active) ==
    IF ~appRender /\ ~selDeps THEN w
    ELSE LET r == IF appRender THEN ReconcileEffect(w, VisibleAssets(as))
                  ELSE [w |-> w, changed |-> FALSE]
             s == IF selDeps THEN SelectEffect(r.w, active)
                  ELSE [w |-> r.w, published |-> FALSE]
         IN Commit(s.w, s.published, r.changed, as, active)

----------------------------------------------------------------------------
(* SceneSpec: the App handlers and the loader callbacks. Each action is a      *)
(* handler together with the React commits it causes. The list is changed here *)
(* by upload, delete and visibility toggle; handleStart, processResponse and    *)
(* handleLoadScene use the same setters and are not part of this specification. *)

Fresh == [v |-> viewer, log |-> <<>>]

\* the state after a handler: the App state it set and the commits that follow
SettleViewer(w, as, active) ==
    /\ w.v.nextSer <= MaxLoads + 1
    /\ viewer' = w.v
    /\ log' = w.log
    /\ assets' = as
    /\ activeAssetId' = active

Settle(w, as, active) ==
    /\ SettleViewer(w, as, active)
    /\ UNCHANGED <<bytes, i, last, dec, intrinsics, resp, transformVars, fileVars>>

\* String.prototype.toLowerCase on the characters file names are written with
ToLowerCase(ch) ==
    CASE ch = "P" -> "p" [] ch = "L" -> "l" [] ch = "Y" -> "y"
      [] ch = "G" -> "g" [] ch = "B" -> "b" [] OTHER -> ch

\* name.split('.').pop(): the characters after the last '.', the whole name
\* when it has none
RECURSIVE LastSegment(_)
LastSegment(name) ==
    IF \A k \in 1..Len(name) : name[k] # "." THEN name
    ELSE LastSegment(Tail(name))

\* file.name.split('.').pop()?.toLowerCase()
Extension(name) == [k \in 1..Len(LastSegment(name)) |-> ToLowerCase(LastSegment(name)[k])]

Ply == <<"p", "l", "y">>
Glb == <<"g", "l", "b">>
Gltf == <<"g", "l", "t", "f">>

\* the asset handleFileUpload makes of a file
UploadedAsset(id, name) ==
    [id |-> id, visible |-> TRUE,
     fileType |-> IF Extension(name) = Ply THEN "ply" ELSE "glb",
     data |-> name, label |-> name, source |-> "upload", initialTransform |-> NoTransform]

\* Variant: the first unsupported file ends the batch
RECURSIVE UploadLoopAborting(_, _, _)
UploadLoopAborting(files, acc, next) ==
    IF files = <<>> THEN acc
    ELSE IF Extension(Head(files)) \in {Ply, Glb, Gltf}
         THEN UploadLoopAborting(Tail(files),
                         [acc EXCEPT !.newAssets = Append(@, UploadedAsset(next, Head(files))),
                                     !.lastValidAssetId = next],
                         next + 1)
         ELSE [acc EXCEPT !.alerts = Append(@, Head(files))]

\* files.forEach: a supported file becomes an asset of newAssets and the last
\* valid identity, any other file gets an alert
RECURSIVE UploadLoop(_, _, _)
UploadLoop(files, acc, next) ==
    IF files = <<>> THEN acc
    ELSE IF Extension(Head(files)) \in {Ply, Glb, Gltf}
         THEN UploadLoop(Tail(files),
                         [acc EXCEPT !.newAssets = Append(@, UploadedAsset(next, Head(files))),
                                     !.lastValidAssetId = next],
                         next + 1)
         ELSE UploadLoop(Tail(files), [acc EXCEPT !.alerts = Append(@, Head(files))], next)

\* handleFileUpload(files) on the App state: the list, the selection and the
\* next identity it leaves, the alerts it showed, and whether it set any state
handleFileUpload(as, active, next, files) ==
    LET r == UploadLoop(files, [newAssets |-> <<>>, lastValidAssetId |-> None,
                                alerts |-> <<>>], next)
    IN IF Len(r.newAssets) > 0
       THEN [assets |-> as \o r.newAssets, activeAssetId |-> r.lastValidAssetId,
             nextId |-> next + Len(r.newAssets), alerts |-> r.alerts, set |-> TRUE]
       ELSE [assets |-> as, activeAssetId |-> active, nextId |-> next,
             alerts |-> r.alerts, set |-> FALSE]

\* a point cloud file
PlyFile == <<"a", ".", "p", "l", "y">>

\* handleFileUpload with k supported files: append them, select the last
HandleFileUpload ==
    \E k \in 1..MaxBatch :
        /\ nextId + k - 1 <= MaxAssets
        /\ LET r == handleFileUpload(assets, activeAssetId, nextId, [j \in 1..k |-> PlyFile])
           IN /\ Settle(Commit(Fresh, TRUE, TRUE, r.assets, r.activeAssetId),
                        r.assets, r.activeAssetId)
              /\ nextId' = r.nextId

\* AssetPanel click on a row: onSelectAsset(asset.id === activeAssetId ? null : asset.id)
HandleSelectAsset ==
    \E a \in AssetIds(assets) :
        LET active == IF a = activeAssetId THEN None ELSE a
        IN /\ Settle(Commit(Fresh, TRUE, TRUE, assets, active), assets, active)
           /\ UNCHANGED nextId

\* Variant: the deletion leaves the selection as it is
handleDeleteAssetKeeping(as, active, idToDelete) ==
    [assets |-> SelectSeq(as, LAMBDA x : x.id # idToDelete), activeAssetId |-> active]

\* handleDeleteAsset: setActiveAssetId(null) when the active asset goes, and
\* setAssets(prev => prev.filter(asset => asset.id !== idToDelete))
handleDeleteAsset(as, active, idToDelete) ==
    [assets |-> SelectSeq(as, LAMBDA x : x.id # idToDelete),
     activeAssetId |-> IF active = idToDelete THEN None ELSE active]

HandleDeleteAsset ==
    \E idToDelete \in AssetIds(assets) :
        LET active == handleDeleteAsset(assets, activeAssetId, idToDelete).activeAssetId
            as == handleDeleteAsset(assets, activeAssetId, idToDelete).assets
        IN /\ Settle(Commit(Fresh, TRUE, active # activeAssetId, as, active), as, active)
           /\ UNCHANGED nextId

HandleToggleVisibility ==
    \E idToToggle \in AssetIds(assets) :
        LET as == [k \in 1..Len(assets) |->
                      IF assets[k].id = idToToggle
                      THEN [assets[k] EXCEPT !.visible = ~@]
                      ELSE assets[k]]
        IN /\ Settle(Commit(Fresh, TRUE, FALSE, as, activeAssetId), as, activeAssetId)
           /\ UNCHANGED nextId

\* any other App state update (setPrompt, setServerEndpoint, setIntrinsics):
\* App renders, the viewer gets a new array with the same assets
AppRerender ==
    /\ Settle(Commit(Fresh, TRUE, FALSE, assets, activeAssetId), assets, activeAssetId)
    /\ UNCHANGED nextId

\* onLoad of a load in flight: register the wrapper, add it to the scene,
\* URL.revokeObjectURL(url), setLoadedModelIds. The object URL of a request
\* (created with the request, the "load" event) is named by the request.
LoadComplete ==
    \E l \in viewer.loads :
        LET m == [ser |-> l.ser, id |-> l.id]
            ev == [by |-> "load", ev |-> "onLoad", obj |-> m, ctl |-> viewer.object,
                   boxes |-> viewer.helpers,
                   ctlReg |-> (viewer.object = NoObj \/ viewer.object \in Registered(viewer)),
                   listed |-> (l.id \in AssetIds(assets))]
            v1 == [viewer EXCEPT !.loads = @ \ {l},
                                 !.models[l.id] = m,
                                 !.scene = @ \cup {m}]
            w == [v |-> v1,
                  log |-> <<ev, Event("load", "revokeObjectURL", m, v1)>>]
        IN /\ Settle(Commit(w, FALSE, TRUE, assets, activeAssetId), assets, activeAssetId)
           /\ UNCHANGED nextId

\* Variant: a failed load registers an empty wrapper under its identity
LoadErrorRegisters ==
    \E l \in viewer.loads :
        /\ viewer' = [viewer EXCEPT !.loads = @ \ {l},
                                    !.models[l.id] = [ser |-> l.ser, id |-> l.id]]
        /\ log' = <<Event("load", "onError", [ser |-> l.ser, id |-> l.id], viewer)>>
        /\ UNCHANGED <<assets, activeAssetId, nextId, bytes, i, last, dec, intrinsics, resp, transformVars, fileVars>>

\* onError of a load in flight: console.error, nothing else
LoadError ==
    \E l \in viewer.loads :
        /\ viewer' = [viewer EXCEPT !.loads = @ \ {l}]
        /\ log' = <<Event("load", "onError", [ser |-> l.ser, id |-> l.id], viewer)>>
        /\ UNCHANGED <<assets, activeAssetId, nextId, bytes, i, last, dec, intrinsics, resp, transformVars, fileVars>>

SceneInit ==
    /\ assets = <<>>
    /\ activeAssetId = None
    /\ nextId = 1
    /\ viewer = EmptyViewer
    /\ log = <<>>
    /\ dec = NoDecoder
    /\ intrinsics = defaultIntrinsics
    /\ resp = NoResponse
    /\ activeAssetTransform = NoTransform
    /\ isUpdatingProgrammatically = FALSE
    /\ timeouts = 0
    /\ placement = NoPlacement
    /\ call = NoFileCall
    /\ archive = NoArchive
    /\ isLoading = FALSE
    /\ bytes = <<>>
    /\ i = 0
    /\ last = NoCall

SceneNext ==
    \/ HandleFileUpload
    \/ HandleSelectAsset
    \/ HandleDeleteAsset
    \/ HandleToggleVisibility
    \/ AppRerender
    \/ LoadComplete
    \/ LoadError

SceneSpec == SceneInit /\ [][SceneNext]_vars

\* SucceedSpec: the same handlers in a session where no load fails
SucceedNext ==
    \/ HandleFileUpload
    \/ HandleSelectAsset
    \/ HandleDeleteAsset
    \/ HandleToggleVisibility
    \/ AppRerender
    \/ LoadComplete

SucceedSpec == SceneInit /\ [][SucceedNext]_vars

----------------------------------------------------------------------------
(* Properties of the scene, stated over SceneSpec *)

\* C1: a load that completes after its identity was removed from the asset list
\* is a no-op: the identity is not in modelsRef and its object is not in the scene.
C1_RemovedLoadIsNoOp ==
    (log # <<>> /\ log[1].ev = "onLoad" /\ ~log[1].listed) =>
        /\ viewer.models[log[1].obj.id] = NoObj
        /\ log[1].obj \notin viewer.scene

\* C2: no orphans and no duplicates: every tracked identity is a visible asset
\* of the list, an identity has at most one render object in the scene, and every
\* render object in the scene is the one registered under its identity.
C2_NoOrphansNoDuplicates ==
    /\ \A a \in Ids :
          viewer.models[a] # NoObj => a \in AssetIds(VisibleAssets(assets))
    /\ \A m1, m2 \in viewer.scene : m1.id = m2.id => m1 = m2
    /\ \A m \in viewer.scene : viewer.models[m.id] = m

\* C3: the gizmo is never left on a removed object: after every reconciliation
\* step, and in every state a handler leaves, it is detached or on a registered
\* object; when reconciliation removes an object, the gizmo is off it already.
C3_GizmoOnTrackedObject ==
    /\ viewer.object = NoObj \/ viewer.object \in Registered(viewer)
    /\ \A k \in 1..Len(log) :
          /\ log[k].ev = "reconciled" => log[k].ctlReg
          /\ log[k].ev = "remove" => log[k].ctl # log[k].obj

\* reconciliation removed the object that held the gizmo, detaching it first
C3_Witness ==
    \E k \in 1..Len(log) :
        /\ k < Len(log)
        /\ log[k].by = "reconcile"
        /\ log[k].ev = "detach"
        /\ log[k].ctl # NoObj
        /\ log[k + 1].ev = "remove"
        /\ log[k + 1].obj = log[k].ctl

\* C4: whenever the gizmo is attached it was detached before and no bounding
\* indicator was left; there is never more than one indicator; with no active
\* identity the gizmo is detached and no indicator is shown.
C4_HandleExclusive ==
    /\ viewer.helpers <= 1
    /\ \A k \in 1..Len(log) :
          /\ log[k].boxes <= 1
          /\ log[k].ev = "attach" => (log[k].ctl = NoObj /\ log[k].boxes = 0)
    /\ activeAssetId = None => (viewer.object = NoObj /\ viewer.helpers = 0)

\* the selection went from one tracked asset to another: the indicator was
\* removed, the gizmo detached from the first object and attached to the second
C4_Witness ==
    \E k, j, n \in 1..Len(log) :
        /\ k < j /\ j < n
        /\ log[k].ev = "removeBox"
        /\ log[j].by = "select" /\ log[j].ev = "detach" /\ log[j].ctl # NoObj
        /\ log[n].ev = "attach" /\ log[n].obj.id # log[j].ctl.id
        /\ viewer.object = log[n].obj

\* C5: right after a reconciliation, running it again on the unchanged list
\* requests no load, removes nothing and causes no attach or detach.
C5_ReconcileIdempotent ==
    (log # <<>> /\ log[Len(log)].ev = "reconciled") =>
        LET r == ReconcileEffect(Fresh, VisibleAssets(assets))
        IN /\ r.w.v = viewer
           /\ ~r.changed
           /\ Len(r.w.log) = 1

----------------------------------------------------------------------------
(* processResponse (src/unnamed/part_000), part by part.                       *)
(* A part's data stands for the bytes its base64 text decodes to (valid: atob  *)
(* accepts the text); the data of a JSON part stands for what JSON.parse makes *)
(* of it. A mime type is its exact text and the markers it includes.           *)

\* the code points of 'Generated Model'
GeneratedModel == <<71, 101, 110, 101, 114, 97, 116, 101, 100, 32, 77, 111, 100, 101, 108>>

Mime(text, has) == [text |-> text, has |-> has]

Structure3DMime == Mime("application/x-protobuf", {"scenecraft.Structure3D"})
CameraIntrinsicsMime == Mime("application/x-protobuf", {"scenecraft.CameraIntrinsics"})

NoJson == [ok |-> FALSE, obj |-> [none |-> 0]]

TextPart == [inline |-> FALSE, mimeType |-> Mime("", {}), valid |-> TRUE, bytes |-> <<>>,
             json |-> NoJson]

Inline(mimeType, bs) ==
    [inline |-> TRUE, mimeType |-> mimeType, valid |-> TRUE, bytes |-> bs, json |-> NoJson]

JsonPart(json) ==
    [inline |-> TRUE, mimeType |-> Mime("application/json", {}), valid |-> TRUE,
     bytes |-> <<>>, json |-> json]

\* the App state the setters of one processResponse call build up
AppState(as, active, intr, next) ==
    [assets |-> as, activeAssetId |-> active, intrinsics |-> intr, nextId |-> next]

\* Variant: the new asset is put in front of the list
AddAssetInFront(st, fileType, data, label) ==
    [st EXCEPT !.assets = <<[id |-> st.nextId, visible |-> TRUE,
                             fileType |-> fileType, data |-> data,
                             label |-> label, source |-> "model"]>> \o @,
               !.activeAssetId = st.nextId,
               !.nextId = @ + 1]

\* setAssets(prev => [...prev, newAsset]); setActiveAssetId(newAsset.id)
AddAsset(st, fileType, data, label) ==
    [st EXCEPT !.assets = Append(@, [id |-> st.nextId, visible |-> TRUE,
                                     fileType |-> fileType, data |-> data,
                                     label |-> label, source |-> "model"]),
               !.activeAssetId = st.nextId,
               !.nextId = @ + 1]

Outcome(st, o) == [st |-> st, outcome |-> o]

\* Variant: an unsupported kind with a payload is taken for a point cloud
ApplyStructure3DAnyKind(st, part) ==
    IF ~part.valid THEN Outcome(st, "failed")
    ELSE LET d == decodeStructure3D(part.bytes)
         IN CASE d.phase = "hang" -> Outcome(st, "hang")
              [] d.phase = "aborted" -> Outcome(st, "failed")
              [] OTHER ->
                    IF Len(d.slots.data) > 0
                    THEN Outcome(AddAsset(st, IF d.slots.fileType = 3 THEN "glb" ELSE "ply",
                                          d.slots.data,
                                          IF d.slots.label = <<>> THEN GeneratedModel
                                          ELSE d.slots.label), "asset")
                    ELSE Outcome(st, "none")

\* the branch of a part whose mime type includes 'scenecraft.Structure3D':
\* fromBase64, decodeStructure3D, the switch on fileType, the new asset
ApplyStructure3D(st, part) ==
    IF ~part.valid THEN Outcome(st, "failed")
    ELSE LET d == decodeStructure3D(part.bytes)
             fileType == d.slots.fileType
             assetFileType == CASE fileType = 1 -> "ply"
                                [] fileType = 3 -> "glb"
                                [] OTHER -> "null"
         IN CASE d.phase = "hang" -> Outcome(st, "hang")
              [] d.phase = "aborted" -> Outcome(st, "failed")
              [] OTHER ->
                    IF assetFileType # "null" /\ Len(d.slots.data) > 0
                    THEN Outcome(AddAsset(st, assetFileType, d.slots.data,
                                          IF d.slots.label = <<>> THEN GeneratedModel
                                          ELSE d.slots.label), "asset")
                    ELSE Outcome(st, "none")

\* Variant: the CameraIntrinsics decoder starts from the intrinsics held so far
ApplyCameraIntrinsicsMerging(st, part) ==
    IF ~part.valid THEN Outcome(st, "failed")
    ELSE LET d == DecodeLoop("CameraIntrinsics", part.bytes, 0, st.intrinsics, {})
         IN CASE d.phase = "hang" -> Outcome(st, "hang")
              [] d.phase = "aborted" -> Outcome(st, "failed")
              [] OTHER -> Outcome([st EXCEPT !.intrinsics = d.slots], "intrinsics")

\* the branch of a part whose mime type includes 'scenecraft.CameraIntrinsics'
ApplyCameraIntrinsics(st, part) ==
    IF ~part.valid THEN Outcome(st, "failed")
    ELSE LET d == decodeCameraIntrinsics(part.bytes)
         IN CASE d.phase = "hang" -> Outcome(st, "hang")
              [] d.phase = "aborted" -> Outcome(st, "failed")
              [] OTHER -> Outcome([st EXCEPT !.intrinsics = d.slots], "intrinsics")

\* the body of parts.forEach for one part: what it does to the App state and
\* how it ends (asset, intrinsics, none, failed: the catch block ran, text: no
\* inlineData, hang: a decoder never returned)
ApplyPart(st, part) ==
    IF ~part.inline THEN Outcome(st, "text")
    ELSE IF "scenecraft.Structure3D" \in part.mimeType.has
    THEN ApplyStructure3D(st, part)
    ELSE IF "scenecraft.CameraIntrinsics" \in part.mimeType.has
    THEN ApplyCameraIntrinsics(st, part)
    ELSE IF part.mimeType = Mime("application/x-ply", {})
    THEN IF ~part.valid THEN Outcome(st, "failed")
         ELSE Outcome(AddAsset(st, "ply", part.bytes, GeneratedModel), "asset")
    ELSE IF part.mimeType = Mime("application/json", {})
    THEN IF ~part.valid \/ ~part.json.ok THEN Outcome(st, "failed")
         ELSE IF {"image_width", "fx"} \subseteq DOMAIN part.json.obj
              THEN Outcome([st EXCEPT !.intrinsics = part.json.obj], "intrinsics")
              ELSE Outcome(st, "none")
    ELSE Outcome(st, "none")

\* Variant: no try / catch around a part, the first failure ends the forEach
RECURSIVE ProcessPartsNoCatch(_, _)
ProcessPartsNoCatch(st, parts) ==
    IF parts = <<>> THEN [trace |-> <<st>>, outcome |-> <<>>]
    ELSE The({ IF a.outcome \in {"hang", "failed"}
               THEN [trace |-> <<st, st>>, outcome |-> <<a.outcome>>]
               ELSE The({ [trace |-> <<st>> \o rest.trace,
                           outcome |-> <<a.outcome>> \o rest.outcome] :
                          rest \in {ProcessPartsNoCatch(a.st, Tail(parts))} }) :
               a \in {ApplyPart(st, parts[1])} })

\* parts.forEach(...): the App state before each part and after the last one,
\* and how each part ended. Nothing follows a part whose decoder never returns.
RECURSIVE ProcessParts(_, _)
ProcessParts(st, parts) ==
    IF parts = <<>> THEN [trace |-> <<st>>, outcome |-> <<>>]
    ELSE The({ IF a.outcome = "hang"
               THEN [trace |-> <<st, st>>, outcome |-> <<"hang">>]
               ELSE The({ [trace |-> <<st>> \o rest.trace,
                           outcome |-> <<a.outcome>> \o rest.outcome] :
                          rest \in {ProcessParts(a.st, Tail(parts))} }) :
               a \in {ApplyPart(st, parts[1])} })

----------------------------------------------------------------------------
(* ResponseSpec: a session up to the processing of its first model response:  *)
(* the user edits intrinsics in the side panel and uploads files while the     *)
(* query is under way, then handleStart's query resolves and processResponse   *)
(* runs on the parts, with the React commit that follows. A part that makes a decoder loop for ever blocks the page: no      *)
(* state update of that call is rendered and nothing runs after it.            *)

\* a scene.json-like record with all six keys, none at its default
JsonIntrinsics ==
    [image_width |-> 640, image_height |-> 480, cx |-> F300, cy |-> F500,
     fx |-> F400, fy |-> F400]

\* The parts responses are built from: text; Structure3D with kind 1 (payload
\* and label), kind 3 (payload), kind 1 without payload, kind 2, kind 99, no
\* kind (0), a wire type 3 after kind and payload, a length of -6;
\* CameraIntrinsics with fx alone and with a float cut short; JSON that does
\* not parse and JSON intrinsics; a raw point cloud; an image.
Parts ==
    { TextPart,
      Inline(Structure3DMime, <<8, 1, 18, 1, 65, 26, 2, 72, 105>>),
      Inline(Structure3DMime, <<8, 3, 18, 1, 65>>),
      Inline(Structure3DMime, <<8, 1>>),
      Inline(Structure3DMime, <<8, 2, 18, 1, 65>>),
      Inline(Structure3DMime, <<8, 99, 18, 1, 65>>),
      Inline(Structure3DMime, <<18, 1, 65>>),
      Inline(Structure3DMime, <<8, 1, 18, 1, 65, 11>>),
      Inline(Structure3DMime, <<18, 250, 255, 255, 255, 15>>),
      Inline(CameraIntrinsicsMime, <<45, 0, 0, 128, 63>>),
      Inline(CameraIntrinsicsMime, <<8, 1, 45, 0, 0>>),
      JsonPart(NoJson),
      JsonPart([ok |-> TRUE, obj |-> JsonIntrinsics]),
      Inline(Mime("application/x-ply", {}), <<112, 108, 121>>),
      Inline(Mime("image/png", {}), <<137, 80>>) }

Responses == UNION { [1..n -> Parts] : n \in 0..MaxParts }

\* SidePanel handleIntrinsicsChange: setIntrinsics({ ...intrinsics, [id]: value })
HandleIntrinsicsChange ==
    /\ resp = NoResponse
    /\ \E edit \in { <<"image_width", 1024>>, <<"fx", F300>> } :
          intrinsics' = [intrinsics EXCEPT ![edit[1]] = edit[2]]
    /\ SettleViewer(Commit(Fresh, TRUE, FALSE, assets, activeAssetId), assets, activeAssetId)
    /\ UNCHANGED <<bytes, i, last, dec, nextId, resp, transformVars, fileVars>>

\* handleStart after the await: processResponse(response), then the commit
ProcessResponse ==
    /\ resp = NoResponse
    /\ \E parts \in Responses \ {<<>>} :
        \E run \in {ProcessParts(AppState(assets, activeAssetId, intrinsics, nextId), parts)} :
          LET end == run.trace[Len(run.trace)]
              hung == run.outcome[Len(run.outcome)] = "hang"
          IN /\ end.nextId <= MaxAssets + 1
             /\ resp' = [parts |-> parts, outcome |-> run.outcome, trace |-> run.trace,
                         hung |-> hung]
             /\ IF hung
                THEN UNCHANGED <<assets, activeAssetId, intrinsics, nextId, viewer, log>>
                ELSE /\ SettleViewer(Commit(Fresh, TRUE, end.activeAssetId # activeAssetId,
                                            end.assets, end.activeAssetId),
                                     end.assets, end.activeAssetId)
                     /\ intrinsics' = end.intrinsics
                     /\ nextId' = end.nextId
    /\ UNCHANGED <<bytes, i, last, dec, transformVars, fileVars>>

\* handleFileUpload while the query is under way (the list is empty before)
UploadWhileWaiting ==
    /\ resp = NoResponse
    /\ assets = <<>>
    /\ HandleFileUpload

ResponseInit == SceneInit

ResponseNext ==
    \/ HandleIntrinsicsChange
    \/ UploadWhileWaiting
    \/ ProcessResponse

ResponseSpec == ResponseInit /\ [][ResponseNext]_vars

----------------------------------------------------------------------------
(* Properties of processResponse, stated over ResponseSpec *)

\* a response was processed to its end
Processed == resp.parts # <<>> /\ ~resp.hung

\* the value the wire format gives a slot: its last field with the expected
\* wire type, or the default
WireOrDefault(kind, bs, slot) ==
    LET occ == Occurrences(kind, bs, slot)
        fs == Walk(bs, 0).fields
    IN IF occ = {} THEN InitialSlots(kind)[slot]
       ELSE ValueOf(bs, fs[CHOOSE x \in occ : \A y \in occ : y <= x], slot)

IsCameraIntrinsicsPart(part) ==
    /\ part.inline
    /\ "scenecraft.CameraIntrinsics" \in part.mimeType.has
    /\ "scenecraft.Structure3D" \notin part.mimeType.has

IsStructure3DPart(part) == part.inline /\ "scenecraft.Structure3D" \in part.mimeType.has

\* C18: the intrinsics a well-formed CameraIntrinsics part leaves are, slot by
\* slot, the value the message carries or the default, whatever was held
\* before; and the intrinsics held after the response are those the last part
\* left.
C18_IntrinsicsFromDefaults ==
    Processed =>
        /\ intrinsics = resp.trace[Len(resp.trace)].intrinsics
        /\ \A k \in 1..Len(resp.parts) :
              (IsCameraIntrinsicsPart(resp.parts[k]) /\ WellFormed(resp.parts[k].bytes)) =>
                  /\ resp.outcome[k] = "intrinsics"
                  /\ \A slot \in DOMAIN defaultIntrinsics :
                        resp.trace[k + 1].intrinsics[slot] =
                            WireOrDefault("CameraIntrinsics", resp.parts[k].bytes, slot)

\* a message with fx alone arrived while an edited width and JSON-set values
\* were held: all of them went back to the defaults
C18_Witness ==
    /\ Processed
    /\ Len(resp.parts) = 2
    /\ resp.trace[1].intrinsics.image_width = 1024
    /\ resp.trace[2].intrinsics = JsonIntrinsics
    /\ resp.parts[2] = Inline(CameraIntrinsicsMime, <<45, 0, 0, 128, 63>>)
    /\ intrinsics = [defaultIntrinsics EXCEPT !.fx = <<0, 0, 128, 63>>]

\* s without its k-th element
RemoveAt(s, k) == [j \in 1..(Len(s) - 1) |-> IF j < k THEN s[j] ELSE s[j + 1]]

\* C19: a well-formed Structure3D part appends an asset iff its kind is 1 or 3
\* and its payload is not empty, a point cloud (ply) for 1 and a binary scene
\* (glb) for 3, and selects it; any other part of that type leaves the asset
\* list and the selection as they were.
C19_KindMapping ==
    Processed =>
        /\ assets = resp.trace[Len(resp.trace)].assets
        /\ activeAssetId = resp.trace[Len(resp.trace)].activeAssetId
        /\ \A k \in 1..Len(resp.parts) :
              LET part == resp.parts[k]
                  before == resp.trace[k]
                  after == resp.trace[k + 1]
                  kind == WireOrDefault("Structure3D", part.bytes, "fileType")
                  payload == WireOrDefault("Structure3D", part.bytes, "data")
              IN (IsStructure3DPart(part) /\ WellFormed(part.bytes)) =>
                    IF kind \in {1, 3} /\ payload # <<>>
                    THEN /\ resp.outcome[k] = "asset"
                         /\ Len(after.assets) = Len(before.assets) + 1
                         /\ RemoveAt(after.assets, Len(after.assets)) = before.assets
                         /\ after.assets[Len(after.assets)].fileType
                               = (IF kind = 1 THEN "ply" ELSE "glb")
                         /\ after.assets[Len(after.assets)].data = payload
                         /\ after.assets[Len(after.assets)].id \notin AssetIds(before.assets)
                         /\ after.activeAssetId = after.assets[Len(after.assets)].id
                    ELSE /\ resp.outcome[k] = "none"
                         /\ after.assets = before.assets
                         /\ after.activeAssetId = before.activeAssetId

\* a kind 3 part made a binary-scene asset, and the kind 2 part after it left
\* the list of one asset and the selection alone
C19_Witness ==
    /\ Processed
    /\ resp.parts = <<Inline(Structure3DMime, <<8, 3, 18, 1, 65>>),
                      Inline(Structure3DMime, <<8, 2, 18, 1, 65>>)>>
    /\ Len(assets) = 1
    /\ assets[1].fileType = "glb"
    /\ assets[1].data = <<65>>
    /\ activeAssetId = assets[1].id
    /\ resp.outcome = <<"asset", "none">>

\* C20: a part that fails changes neither the asset list, the selection nor
\* the intrinsics, every part of the response is processed, and the parts after
\* a failing one are processed as if it were not in the response.
C20_FailureIsolated ==
    Processed =>
        /\ Len(resp.outcome) = Len(resp.parts)
        /\ AppState(assets, activeAssetId, intrinsics, nextId) = resp.trace[Len(resp.trace)]
        /\ \A k \in 1..Len(resp.parts) :
              resp.outcome[k] = "failed" =>
                  /\ resp.trace[k + 1] = resp.trace[k]
                  /\ LET without == ProcessParts(resp.trace[1], RemoveAt(resp.parts, k))
                     IN /\ without.trace = RemoveAt(resp.trace, k + 1)
                        /\ without.outcome = RemoveAt(resp.outcome, k)

\* a Structure3D part with kind 1 and a payload failed on a wire type 3 and
\* made no asset; the raw point cloud after it became the only asset
C20_Witness ==
    /\ Processed
    /\ resp.parts = <<Inline(Structure3DMime, <<8, 1, 18, 1, 65, 11>>),
                      Inline(Mime("application/x-ply", {}), <<112, 108, 121>>)>>
    /\ resp.outcome = <<"failed", "asset">>
    /\ Len(assets) = 1
    /\ assets[1].data = <<112, 108, 121>>
    /\ intrinsics = defaultIntrinsics

\* the asset a part added: the last one of the list it left
Added(k) == resp.trace[k + 1].assets[Len(resp.trace[k + 1].assets)]

\* the parts of the response that produced an asset
AssetParts == { k \in 1..Len(resp.parts) : resp.outcome[k] = "asset" }

\* C21: every asset a part emits is appended at the end of the list as the part
\* found it (the assets before it and their order unchanged), with an identity
\* no asset of that list has, source 'model' and visible; it becomes the active
\* selection. After the response the emitted assets stand in part order behind
\* the assets that were there, and the selection is the asset of the last
\* asset-producing part.
C21_EmittedAssetAppended ==
    Processed =>
        /\ \A k \in AssetParts :
              LET before == resp.trace[k]
                  after == resp.trace[k + 1]
              IN /\ Len(after.assets) = Len(before.assets) + 1
                 /\ \A j \in 1..Len(before.assets) : after.assets[j] = before.assets[j]
                 /\ Added(k).id \notin AssetIds(before.assets)
                 /\ Added(k).source = "model"
                 /\ Added(k).visible
                 /\ after.activeAssetId = Added(k).id
        /\ \A k \in (1..Len(resp.parts)) \ AssetParts :
              /\ resp.trace[k + 1].assets = resp.trace[k].assets
              /\ resp.trace[k + 1].activeAssetId = resp.trace[k].activeAssetId
        /\ \A k1, k2 \in AssetParts :
              k1 < k2 =>
                 \E j1, j2 \in 1..Len(assets) :
                    j1 < j2 /\ assets[j1] = Added(k1) /\ assets[j2] = Added(k2)
        /\ AssetParts # {} =>
              activeAssetId = Added(CHOOSE k \in AssetParts : \A j \in AssetParts : j <= k).id
        /\ Cardinality(AssetIds(assets)) = Len(assets)

\* a response with two asset-producing parts, a point cloud and then a binary
\* scene: the second was appended behind the first and is selected
C21_Witness ==
    /\ Processed
    /\ Cardinality(AssetParts) = 2
    /\ Len(assets) = 2
    /\ assets[1].fileType = "ply"
    /\ assets[2].fileType = "glb"
    /\ activeAssetId = assets[2].id

----------------------------------------------------------------------------
(* Further properties of the scene, stated over SceneSpec *)

\* the step is the failure of a load
LoadFailed == log' # <<>> /\ log'[1].ev = "onError" /\ log' # log

\* C24: a failed load registers nothing and changes no shared state: modelsRef,
\* the scene's render objects, the gizmo's object, the bounding indicator, the
\* asset list and the selection are after the failure what they were before it,
\* and the other loads in flight stay in flight.
C24_FailedLoadChangesNothing ==
    [][LoadFailed =>
          /\ viewer'.models = viewer.models
          /\ viewer'.scene = viewer.scene
          /\ viewer'.object = viewer.object
          /\ viewer'.boxRef = viewer.boxRef
          /\ viewer'.helpers = viewer.helpers
          /\ viewer'.loads = viewer.loads \ {log'[1].obj}
          /\ log'[1].obj \in viewer.loads
          /\ assets' = assets
          /\ activeAssetId' = activeAssetId]_vars

\* a load failed while the gizmo was on a tracked object and another load was
\* in flight
C24_Witness ==
    /\ log # <<>>
    /\ log[1].ev = "onError"
    /\ viewer.object # NoObj
    /\ viewer.boxRef # NoObj
    /\ viewer.loads # {}
    /\ viewer.models[log[1].obj.id] = NoObj

\* C32: a deletion takes exactly one asset off the list and leaves the others,
\* their order and their fields as they were; the selection is cleared when the
\* deleted asset was the active one and kept otherwise.
C32_DeleteRemovesExactly ==
    [][(AssetIds(assets') # AssetIds(assets) /\ AssetIds(assets') \subseteq AssetIds(assets))
          => \E X \in AssetIds(assets) :
                /\ assets' = SelectSeq(assets, LAMBDA x : x.id # X)
                /\ Len(assets') = Len(assets) - 1
                /\ activeAssetId' = IF activeAssetId = X THEN None ELSE activeAssetId]_vars

\* an asset was deleted (its object was removed and it is no longer listed)
\* while another asset was selected: the selection is kept, and a hidden asset
\* is still listed as hidden
C32_Witness ==
    /\ \E k \in 1..Len(log) :
          /\ log[k].ev = "remove"
          /\ log[k].obj.id \notin AssetIds(assets)
          /\ log[k].obj.id # activeAssetId
    /\ activeAssetId \in AssetIds(assets)
    /\ \E k \in 1..Len(assets) : ~assets[k].visible

----------------------------------------------------------------------------
(* Placements. One axis stands for the three of a vector: the code treats x,   *)
(* y and z alike. Positions and scales are passed on as they are; a rotation   *)
(* is held in radians by the render object and in degrees by the App, and the  *)
(* two conversions are IEEE double multiplications that do not undo each       *)
(* other. Angles are numbered:                                                 *)
(*   radians 0 = 0.0, 1 = 0.5235987755982988, 2 = 1.74,                        *)
(*           3 = 1.7400000000000002, 4 = 1.7400000000000004                    *)
(*   degrees 0 = 0.0, 29 = 29.999999999999996, 30 = 30.0,                      *)
(*           99 = 99.69465635276325, 100 = 99.69465635276326                   *)

\* THREE.MathUtils.radToDeg
radToDeg(r) == CASE r = 0 -> 0 [] r = 1 -> 29 [] r = 2 -> 99 [] r = 3 -> 100 [] r = 4 -> 100

\* THREE.MathUtils.degToRad
degToRad(d) == CASE d = 0 -> 0 [] d = 30 -> 1 [] d = 29 -> 1 [] d = 99 -> 3 [] d = 100 -> 4

\* the AssetTransform read off a render object (onTransformChange's argument)
ToTransform(p) ==
    [position |-> p.position, rotation |-> radToDeg(p.rotation), scale |-> p.scale]

\* position.set, rotation.set(degToRad(...)), scale.set with an AssetTransform
ToPlacement(t) ==
    [position |-> t.position, rotation |-> degToRad(t.rotation), scale |-> t.scale]

\* the centre of the geometry loaded for an identity (each asset has its own)
Center(id) == id

\* the asset object the load was requested for, as the list `as` still has it
ListedAsset(as, id) == as[CHOOSE k \in 1..Len(as) : as[k].id = id]

\* onLoad: the wrapper takes the asset's initialTransform, or else sits at the
\* geometry's centre, unrotated and unscaled
InitialPlacement(as, id) ==
    IF id \in AssetIds(as) /\ ListedAsset(as, id).initialTransform # NoTransform
    THEN ToPlacement(ListedAsset(as, id).initialTransform)
    ELSE [position |-> Center(id), rotation |-> 0, scale |-> 1]

\* a scene event that carries a value (a transform, a flag)
EventWith(by, ev, obj, v, val) ==
    [by |-> by, ev |-> ev, obj |-> obj, ctl |-> v.object, boxes |-> v.helpers,
     ctlReg |-> (v.object = NoObj \/ v.object \in Registered(v)), val |-> val]

\* the work record of a commit with the placements and the guard:
\* [v, log, place, guard, timeouts]
Working == [v |-> viewer, log |-> <<>>, place |-> placement,
            guard |-> isUpdatingProgrammatically, timeouts |-> timeouts]

\* useEffect(..., [activeAssetTransform, activeAssetId]): write the App's
\* transform onto the active model under the guard, refresh the indicator,
\* release the guard in a timeout
ApplyTransformEffect(w, active, transform) ==
    LET model == IF active # None THEN w.v.models[active] ELSE NoObj
    IN IF model # NoObj /\ transform # NoTransform
       THEN LET w1 == [w EXCEPT !.guard = TRUE,
                                !.place = [ser \in (DOMAIN @) \cup {model.ser} |->
                                              IF ser = model.ser THEN ToPlacement(transform)
                                              ELSE @[ser]],
                                !.log = Append(@, EventWith("apply", "write", model, w.v,
                                                            ToPlacement(transform)))]
                w2 == IF w1.v.boxRef # NoObj
                      THEN Emit(w1, "apply", "refreshBox", model)
                      ELSE w1
            IN [w2 EXCEPT !.timeouts = @ + 1]
       ELSE w

\* Variant: the selection effect publishes the transform the App holds
PublishedStale(w, m, transform) ==
    [w |-> [w EXCEPT !.log = Append(@, EventWith("select", "onTransformChange", m, w.v,
                                                 [sent |-> transform, held |-> w.place[m.ser]]))],
     transform |-> transform]

\* onTransformChange({...}) of the selection effect: the model's position,
\* rotation in degrees and scale as they are now
Published(w, m, transform) ==
    [w |-> [w EXCEPT !.log = Append(@, EventWith("select", "onTransformChange", m, w.v,
                                                 [sent |-> ToTransform(w.place[m.ser]),
                                                  held |-> w.place[m.ser]]))],
     transform |-> ToTransform(w.place[m.ser])]

\* One React commit and the commits it causes, with all three effects in the
\* order they are declared: reconciliation (App rendered), selection
\* (activeAssetId or loadedModelIds changed), apply-transform
\* (activeAssetTransform or activeAssetId changed). The selection effect's
\* onTransformChange sets activeAssetTransform to a new object: App renders
\* again with it. Returns the work record and the App's transform at the end.
RECURSIVE CommitAll(_, _, _, _, _, _, _)
CommitAll(w, appRender, selDeps, applyDeps, as, active, transform) ==
    IF ~appRender /\ ~selDeps /\ ~applyDeps THEN [w |-> w, transform |-> transform]
    ELSE LET r == IF appRender THEN ReconcileEffect(w, VisibleAssets(as))
                  ELSE [w |-> w, changed |-> FALSE]
             s == IF selDeps THEN SelectEffect(r.w, active)
                  ELSE [w |-> r.w, published |-> FALSE]
             p == IF s.published THEN Published(s.w, s.w.v.object, transform)
                  ELSE [w |-> s.w, transform |-> transform]
             a == IF applyDeps THEN ApplyTransformEffect(p.w, active, transform)
                  ELSE p.w
         IN CommitAll(a, s.published, r.changed, s.published, as, active, p.transform)

\* the placements of the render objects that are still registered or in the scene
Live(place, v) ==
    [ser \in { m.ser : m \in (Registered(v) \cup v.scene) } \cap DOMAIN place |-> place[ser]]

\* Variant: the objectChange listener without the guard test
handleTransformChangeUnguarded(w, transform) ==
    LET object == w.v.object
        w1 == IF w.v.boxRef # NoObj THEN Emit(w, "gizmo", "refreshBox", object) ELSE w
        sent == ToTransform(w.place[object.ser])
    IN [w |-> [w1 EXCEPT !.log = Append(@, EventWith("gizmo", "onTransformChange", object, w.v,
                                                     [sent |-> sent,
                                                      held |-> w.place[object.ser]]))],
        transform |-> sent, published |-> TRUE]

\* handleTransformChange, the gizmo's objectChange listener: nothing under the
\* guard; otherwise refresh the indicator and publish the object's placement
handleTransformChange(w, transform) ==
    IF w.guard THEN [w |-> w, transform |-> transform, published |-> FALSE]
    ELSE LET object == w.v.object
             w1 == IF w.v.boxRef # NoObj THEN Emit(w, "gizmo", "refreshBox", object) ELSE w
             sent == ToTransform(w.place[object.ser])
         IN [w |-> [w1 EXCEPT !.log = Append(@, EventWith("gizmo", "onTransformChange", object,
                                                          w.v, [sent |-> sent,
                                                                held |-> w.place[object.ser]]))],
             transform |-> sent, published |-> TRUE]

----------------------------------------------------------------------------
(* TransformSpec: the handlers with all three effects of the viewer, the      *)
(* numeric fields of the asset panel, the gizmo's change notifications and the *)
(* timeouts that release the guard. No load fails here.                        *)

\* the state a handler and its commits leave
SettleScene(c, as, active, maxLoads) ==
    /\ c.w.v.nextSer <= maxLoads + 1
    /\ c.w.timeouts <= MaxTimeouts
    /\ viewer' = c.w.v
    /\ log' = c.w.log
    /\ assets' = as
    /\ activeAssetId' = active
    /\ placement' = Live(c.w.place, c.w.v)
    /\ isUpdatingProgrammatically' = c.w.guard
    /\ timeouts' = c.w.timeouts
    /\ activeAssetTransform' = c.transform

SettleAll(c, as, active) ==
    /\ SettleScene(c, as, active, MaxPlacedLoads)
    /\ UNCHANGED <<bytes, i, last, dec, intrinsics, resp, fileVars>>

\* handleFileUpload with k supported files
PlacedUpload ==
    \E k \in 1..MaxBatch :
        /\ nextId + k - 1 <= MaxPlaced
        /\ LET r == handleFileUpload(assets, activeAssetId, nextId, [j \in 1..k |-> PlyFile])
           IN /\ SettleAll(CommitAll(Working, TRUE, TRUE, TRUE, r.assets, r.activeAssetId,
                                     activeAssetTransform),
                           r.assets, r.activeAssetId)
              /\ nextId' = r.nextId

\* handleSelectAsset(id): setActiveAssetId(id), and setActiveAssetTransform(null)
\* when id is null
PlacedSelectAsset ==
    \E a \in AssetIds(assets) :
        LET active == IF a = activeAssetId THEN None ELSE a
            transform == IF active = None THEN NoTransform ELSE activeAssetTransform
        IN /\ SettleAll(CommitAll(Working, TRUE, TRUE, TRUE, assets, active, transform),
                        assets, active)
           /\ UNCHANGED nextId

PlacedDeleteAsset ==
    \E idToDelete \in AssetIds(assets) :
        LET active == handleDeleteAsset(assets, activeAssetId, idToDelete).activeAssetId
            as == handleDeleteAsset(assets, activeAssetId, idToDelete).assets
        IN /\ SettleAll(CommitAll(Working, TRUE, active # activeAssetId,
                                  active # activeAssetId, as, active, activeAssetTransform),
                        as, active)
           /\ UNCHANGED nextId

\* Variant: onLoad without setLoadedModelIds
onLoadUnobserved(w, as, l) ==
    LET m == [ser |-> l.ser, id |-> l.id]
        v1 == [w.v EXCEPT !.loads = @ \ {l},
                          !.models[l.id] = m,
                          !.scene = @ \cup {m}]
    IN [w |-> [w EXCEPT
                  !.v = v1,
                  !.log = <<EventWith("load", "onLoad", m, w.v, InitialPlacement(as, l.id)),
                            Event("load", "revokeObjectURL", m, v1)>>,
                  !.place = [ser \in (DOMAIN @) \cup {m.ser} |->
                                IF ser = m.ser THEN InitialPlacement(as, l.id) ELSE @[ser]]],
        changed |-> FALSE]

\* onLoad: the wrapper gets its placement, is registered and added to the
\* scene, the URL is revoked, setLoadedModelIds (always a new Set)
onLoad(w, as, l) ==
    LET m == [ser |-> l.ser, id |-> l.id]
        v1 == [w.v EXCEPT !.loads = @ \ {l},
                          !.models[l.id] = m,
                          !.scene = @ \cup {m}]
    IN [w |-> [w EXCEPT
                  !.v = v1,
                  !.log = <<EventWith("load", "onLoad", m, w.v, InitialPlacement(as, l.id)),
                            Event("load", "revokeObjectURL", m, v1)>>,
                  !.place = [ser \in (DOMAIN @) \cup {m.ser} |->
                                IF ser = m.ser THEN InitialPlacement(as, l.id) ELSE @[ser]]],
        changed |-> TRUE]

\* a load completes; the selection effect runs when loadedModelIds was set
PlacedLoadComplete ==
    \E l \in viewer.loads :
        LET loaded == onLoad(Working, assets, l)
        IN /\ SettleAll(CommitAll(loaded.w, FALSE, loaded.changed, FALSE, assets,
                                  activeAssetId, activeAssetTransform),
                        assets, activeAssetId)
           /\ UNCHANGED nextId

\* C31: when the load of the active identity completes and the asset is still
\* listed and visible, the gizmo is attached to the new render object and its
\* placement is published: the App's transform is that placement.
C31_LateLoadSelected ==
    (/\ log # <<>>
     /\ log[1].ev = "onLoad"
     /\ log[1].obj.id = activeAssetId
     /\ activeAssetId \in AssetIds(VisibleAssets(assets)))
        => /\ viewer.object = log[1].obj
           /\ viewer.boxRef = log[1].obj
           /\ \E k \in 1..Len(log) :
                 /\ log[k].by = "select"
                 /\ log[k].ev = "onTransformChange"
                 /\ log[k].obj = log[1].obj
                 /\ log[k].val.sent = ToTransform(log[1].val)
                 /\ activeAssetTransform = log[k].val.sent

\* an uploaded asset was selected while untracked and its load has completed:
\* the gizmo is on its object and the App holds its placement
C31_Witness ==
    /\ log # <<>>
    /\ log[1].ev = "onLoad"
    /\ log[1].obj.id = activeAssetId
    /\ log[1].ctl = NoObj
    /\ viewer.object = log[1].obj
    /\ activeAssetTransform = [position |-> Center(activeAssetId), rotation |-> 0, scale |-> 1]

\* what the user types into a numeric field: a rotation of 30 degrees
PanelEdits == { [type |-> "rotation", value |-> 30] }

\* AssetPanel handleTransformValueChange: nothing without a transform; else
\* onTransformChange(the transform with one value replaced)
HandleTransformValueChange ==
    /\ activeAssetTransform # NoTransform
    /\ \E edit \in PanelEdits :
          LET newTransform == [activeAssetTransform EXCEPT ![edit.type] = edit.value]
              w == [Working EXCEPT !.log = <<EventWith("panel", "edit", NoObj, viewer,
                                                      newTransform)>>]
          IN SettleAll(CommitAll(w, TRUE, FALSE, TRUE, assets, activeAssetId, newTransform),
                       assets, activeAssetId)
    /\ UNCHANGED nextId

\* where a drag of the gizmo puts its object: a rotation of 1.74 rad, a
\* position of 5
Drags == { [type |-> "position", value |-> 5] }

\* the user drags the gizmo: TransformControls writes the object's placement
\* and dispatches objectChange to handleTransformChange
ObjectChange ==
    /\ viewer.object # NoObj
    /\ \E drag \in Drags :
          LET object == viewer.object
              moved == [placement[object.ser] EXCEPT ![drag.type] = drag.value]
              w == [Working EXCEPT
                       !.place[object.ser] = moved,
                       !.log = <<EventWith("gizmo", "objectChange", object, viewer,
                                           [guard |-> isUpdatingProgrammatically,
                                            before |-> activeAssetTransform])>>]
              h == handleTransformChange(w, activeAssetTransform)
          IN /\ moved # placement[object.ser]
             /\ SettleAll(CommitAll(h.w, h.published, FALSE, h.published, assets,
                                    activeAssetId, h.transform),
                          assets, activeAssetId)
    /\ UNCHANGED nextId

\* the callback of setTimeout(..., 0) of an apply-transform effect runs
GuardTimeout ==
    /\ timeouts > 0
    /\ isUpdatingProgrammatically' = FALSE
    /\ timeouts' = timeouts - 1
    /\ log' = <<EventWith("timeout", "release", NoObj, viewer, timeouts - 1)>>
    /\ UNCHANGED <<assets, activeAssetId, nextId, viewer, placement, activeAssetTransform,
                   bytes, i, last, dec, intrinsics, resp, fileVars>>

TransformInit == SceneInit

TransformNext ==
    \/ PlacedUpload
    \/ PlacedSelectAsset
    \/ PlacedDeleteAsset
    \/ PlacedLoadComplete
    \/ HandleTransformValueChange
    \/ ObjectChange
    \/ GuardTimeout

TransformSpec == TransformInit /\ [][TransformNext]_vars

\* C22: a change notification of the gizmo that arrives while the guard is set
\* publishes nothing and refreshes no indicator: the handler does nothing, and
\* the App keeps the transform it had.
C22_EchoSuppressed ==
    (log # <<>> /\ log[1].ev = "objectChange" /\ log[1].val.guard)
        => /\ Len(log) = 1
           /\ activeAssetTransform = log[1].val.before

\* the gizmo's object was dragged while the guard of an earlier write was set,
\* with an indicator shown
C22_Witness ==
    /\ log # <<>>
    /\ log[1].ev = "objectChange"
    /\ log[1].val.guard
    /\ log[1].boxes = 1
    /\ placement[log[1].obj.ser].position = 5
    /\ activeAssetTransform.position # 5

\* C39: every change notification of a drag publishes the placement the
\* object has after the drag, whether or not an external write was applied
\* whose deferred guard release has not run yet: the handler reports it through
\* onTransformChange and the App holds it as the active transform.
C39_DragsPublished ==
    (log # <<>> /\ log[1].ev = "objectChange")
        => \E k \in 1..Len(log) :
              /\ log[k].ev = "onTransformChange"
              /\ log[k].by = "gizmo"
              /\ log[k].obj = log[1].obj
              /\ log[k].val.held.position = 5

\* C23: the guard is never clear while an external write has been applied
\* whose deferred tick has not run yet.
C23_GuardHeldUntilTicksRan == timeouts > 0 => isUpdatingProgrammatically

\* C26: the gizmo is on the render object of the active identity, with its
\* indicator, if that identity is tracked, and otherwise on nothing with no
\* indicator; what the selection effect publishes when it attaches is the
\* object's placement at that moment, rotation in degrees.
C26_SelectionConsistent ==
    /\ IF activeAssetId # None /\ viewer.models[activeAssetId] # NoObj
       THEN /\ viewer.object = viewer.models[activeAssetId]
            /\ viewer.boxRef = viewer.models[activeAssetId]
            /\ viewer.helpers = 1
       ELSE /\ viewer.object = NoObj
            /\ viewer.boxRef = NoObj
            /\ viewer.helpers = 0
    /\ \A k \in 1..Len(log) :
          (log[k].by = "select" /\ log[k].ev = "onTransformChange")
              => /\ log[k].ctl = log[k].obj
                 /\ log[k].val.sent = ToTransform(log[k].val.held)

\* an asset with a typed rotation of 30 degrees was selected again: the
\* selection effect attached the gizmo and published the rotation its object
\* holds, 29.999999999999996 degrees
C26_Witness ==
    /\ activeAssetId # None
    /\ viewer.object = viewer.models[activeAssetId]
    /\ \E k \in 1..Len(log) :
          /\ log[k].by = "select"
          /\ log[k].ev = "onTransformChange"
          /\ log[k].obj = viewer.object
          /\ log[k].val.held.rotation = 1
          /\ log[k].val.sent.rotation = 29

\* C34: a change of the selection to another listed asset writes no placement
\* other than the object's own onto a render object, and leaves every render
\* object with the placement it had.
C34_SelectionWritesNothing ==
    [][(activeAssetId' # activeAssetId /\ activeAssetId' # None /\ assets' = assets)
          => /\ \A k \in 1..Len(log') :
                   log'[k].ev = "write" => log'[k].val = placement[log'[k].obj.ser]
             /\ \A ser \in DOMAIN placement' : placement'[ser] = placement[ser]]_vars

----------------------------------------------------------------------------
(* ToggleSpec: uploads, loads, edits of the placement and the visibility       *)
(* toggle. `call` keeps the placement a render object had when its asset was   *)
(* hidden.                                                                     *)

\* handleToggleVisibility: setAssets(prev => prev.map(... visible: !visible))
PlacedToggleVisibility ==
    \E idToToggle \in AssetIds(assets) :
        LET as == [k \in 1..Len(assets) |->
                      IF assets[k].id = idToToggle
                      THEN [assets[k] EXCEPT !.visible = ~@]
                      ELSE assets[k]]
            model == viewer.models[idToToggle]
        IN /\ SettleScene(CommitAll(Working, TRUE, FALSE, FALSE, as, activeAssetId,
                                    activeAssetTransform),
                          as, activeAssetId, MaxPlacedLoads)
           /\ call' = IF ListedAsset(assets, idToToggle).visible /\ model # NoObj
                      THEN [op |-> "hide", id |-> idToToggle, held |-> placement[model.ser]]
                      ELSE call
           /\ UNCHANGED <<nextId, bytes, i, last, dec, intrinsics, resp, archive, isLoading>>

ToggleInit == SceneInit

ToggleNext ==
    \/ PlacedUpload
    \/ PlacedLoadComplete
    \/ HandleTransformValueChange
    \/ ObjectChange
    \/ GuardTimeout
    \/ PlacedToggleVisibility

ToggleSpec == ToggleInit /\ [][ToggleNext]_vars

\* C33: when an asset that was hidden is shown again and its load completes,
\* its render object has the placement the asset's object had when it was
\* hidden.
C33_TogglePreservesPlacement ==
    (/\ call.op = "hide"
     /\ log # <<>>
     /\ log[1].ev = "onLoad"
     /\ log[1].obj.id = call.id
     /\ call.id \in AssetIds(VisibleAssets(assets)))
        => placement[log[1].obj.ser] = call.held

----------------------------------------------------------------------------
(* Scene archives. An archive holds the manifest (scene.json: intrinsics and   *)
(* one entry per exported asset) and the files of the container by name.       *)
(* handleLoadScene is asynchronous: the scene is cleared once the manifest is  *)
(* parsed, and the new list is set when every file of the container has been   *)
(* read; other handlers can run in between.                                    *)

\* the characters /[^a-z0-9]/gi leaves alone
Alnum == {"a", "b", "c", "e", "f", "g", "l", "p", "t", "x", "y",
          "B", "G", "L", "P", "Y", "1", "2", "3", "4", "5", "6"}

\* label.replace(/[^a-z0-9]/gi, '_').toLowerCase()
Sanitized(label) ==
    [k \in 1..Len(label) |-> IF label[k] \in Alnum THEN ToLowerCase(label[k]) ELSE "_"]

\* id.substring(0, 4): the first four characters of a random UUID. Two
\* identities can have them in common; here those two apart do.
IdPrefix(id) == << <<"1", "2">>[((id - 1) % 2) + 1] >>

\* the characters of asset.fileType
TypeChars(fileType) == IF fileType = "ply" THEN Ply ELSE Glb

\* `${sanitized label}_${id.substring(0, 4)}.${asset.fileType}`
ExportName(asset) ==
    Sanitized(asset.label) \o <<"_">> \o IdPrefix(asset.id) \o <<".">> \o TypeChars(asset.fileType)

\* getSceneData: the transform of every entry of modelsRef, by identity
getSceneData(v, place) ==
    [a \in { x \in Ids : v.models[x] # NoObj } |-> ToTransform(place[v.models[a].ser])]

\* assets.forEach of handleSaveScene: an entry for each asset that has a
\* transform in the scene data, in list order
Exported(as, sceneData) ==
    LET kept == SelectSeq(as, LAMBDA x : x.id \in DOMAIN sceneData)
    IN [k \in 1..Len(kept) |->
           [fileName |-> ExportName(kept[k]), label |-> kept[k].label,
            transform |-> sceneData[kept[k].id]]]

\* handleSaveScene: nothing but an alert when the scene data is empty; else the
\* archive with the manifest and each listed asset's data under its file name
\* (zip.file replaces a file of the same name). `exported` keeps the list the
\* archive was made from.
handleSaveScene(as, v, place, intr) ==
    LET sceneData == getSceneData(v, place)
        entries == Exported(as, sceneData)
        kept == SelectSeq(as, LAMBDA x : x.id \in DOMAIN sceneData)
    IN IF DOMAIN sceneData = {} THEN NoArchive
       ELSE [written |-> TRUE,
             intrinsics |-> intr,
             manifest |-> entries,
             files |-> [n \in { entries[k].fileName : k \in 1..Len(entries) } |->
                           kept[CHOOSE k \in 1..Len(entries) :
                                    /\ entries[k].fileName = n
                                    /\ \A j \in 1..Len(entries) :
                                          entries[j].fileName = n => j <= k].data],
             exported |-> as]

\* Variant: the import gives up at the first entry it cannot use
RECURSIVE ResolvedAborting(_, _, _, _)
ResolvedAborting(manifest, files, k, next) ==
    IF k > Len(manifest) THEN <<>>
    ELSE LET assetInfo == manifest[k]
         IN IF assetInfo.fileName \notin DOMAIN files THEN <<>>
            ELSE IF Extension(assetInfo.fileName) \notin {Ply, Glb} THEN <<>>
            ELSE << [id |-> next, visible |-> TRUE,
                     fileType |-> IF Extension(assetInfo.fileName) = Ply THEN "ply" ELSE "glb",
                     data |-> files[assetInfo.fileName],
                     label |-> assetInfo.label,
                     source |-> "upload",
                     initialTransform |-> assetInfo.transform] >>
                 \o ResolvedAborting(manifest, files, k + 1, next + 1)

\* manifest.assets.map(...) and the filter of handleLoadScene: an entry whose
\* file is not in the container or whose extension is neither ply nor glb gives
\* null and is filtered out; every other entry gives an asset with a new id
RECURSIVE Resolved(_, _, _, _)
Resolved(manifest, files, k, next) ==
    IF k > Len(manifest) THEN <<>>
    ELSE LET assetInfo == manifest[k]
         IN IF assetInfo.fileName \notin DOMAIN files
            THEN Resolved(manifest, files, k + 1, next)
            ELSE IF Extension(assetInfo.fileName) \notin {Ply, Glb}
            THEN Resolved(manifest, files, k + 1, next)
            ELSE << [id |-> next, visible |-> TRUE,
                     fileType |-> IF Extension(assetInfo.fileName) = Ply THEN "ply" ELSE "glb",
                     data |-> files[assetInfo.fileName],
                     label |-> assetInfo.label,
                     source |-> "upload",
                     initialTransform |-> assetInfo.transform] >>
                 \o Resolved(manifest, files, k + 1, next + 1)

ImportPending == call.op = "import" /\ call.pending

\* handleSaveScene
HandleSaveScene ==
    /\ archive' = handleSaveScene(assets, viewer, placement, intrinsics)
    /\ log' = <<EventWith("save", IF archive'.written THEN "download" ELSE "alert", NoObj,
                          viewer, Len(assets))>>
    /\ UNCHANGED <<assets, activeAssetId, nextId, viewer, bytes, i, last, dec, intrinsics,
                   resp, transformVars, call, isLoading>>

NoBefore == [kept |-> FALSE]

\* the asset list, the selection, the published placement and the intrinsics
\* at the time handleLoadScene is called
SceneBefore ==
    [kept |-> TRUE, assets |-> assets, activeAssetId |-> activeAssetId,
     activeAssetTransform |-> activeAssetTransform, intrinsics |-> intrinsics]

\* handleLoadScene up to the asset files: the manifest is parsed, then
\* setIntrinsics, setAssets([]), setActiveAssetId(null),
\* setActiveAssetTransform(null), taken as one render. One import at a time.
LoadSceneClearFrom(arch, before) ==
    /\ ~ImportPending
    /\ intrinsics' = arch.intrinsics
    /\ SettleScene(CommitAll([Working EXCEPT
                                 !.log = <<EventWith("import", "clear", NoObj, viewer,
                                                     Len(arch.manifest))>>],
                             TRUE, activeAssetId # None, TRUE, <<>>, None, NoTransform),
                   <<>>, None, MaxLoads)
    /\ call' = [op |-> "import", archive |-> arch, pending |-> TRUE, resolved |-> <<>>,
                failed |-> FALSE, before |-> before]
    /\ isLoading' = TRUE
    /\ UNCHANGED <<nextId, bytes, i, last, dec, resp, archive>>

\* the import where the scene it started from is not looked at afterwards
LoadSceneClear(arch) == LoadSceneClearFrom(arch, NoBefore)

\* handleLoadScene after Promise.all: setAssets(resolvedAssets), and
\* setIsLoading(false) in the finally block
LoadSceneResolve ==
    /\ ImportPending
    /\ LET resolvedAssets == Resolved(call.archive.manifest, call.archive.files, 1, nextId)
       IN /\ nextId + Len(resolvedAssets) - 1 <= MaxAssets
          /\ nextId' = nextId + Len(resolvedAssets)
          /\ SettleScene(CommitAll([Working EXCEPT
                                       !.log = <<EventWith("import", "setAssets", NoObj,
                                                           viewer, Len(resolvedAssets))>>],
                                   TRUE, FALSE, FALSE, resolvedAssets,
                                   activeAssetId, activeAssetTransform),
                         resolvedAssets, activeAssetId, MaxLoads)
          /\ call' = [call EXCEPT !.pending = FALSE, !.resolved = resolvedAssets]
    /\ isLoading' = FALSE
    /\ UNCHANGED <<bytes, i, last, dec, intrinsics, resp, archive>>

----------------------------------------------------------------------------
(* ArchiveSpec: uploads, loads, edits of the placement, export of the scene    *)
(* and import of the exported archive.                                         *)

ImportExported == archive.written /\ LoadSceneClear(archive)

ArchiveInit == SceneInit

ArchiveNext ==
    \/ PlacedUpload
    \/ PlacedLoadComplete
    \/ HandleTransformValueChange
    \/ ObjectChange
    \/ GuardTimeout
    \/ HandleSaveScene
    \/ ImportExported
    \/ LoadSceneResolve

ArchiveSpec == ArchiveInit /\ [][ArchiveNext]_vars

\* C27: the import of the archive the export wrote gives a list with as many
\* assets as the exported list, the same labels in the same order, and initial
\* placements equal to the placements the render objects had at export.
C27_RoundTrip ==
    (call.op = "import" /\ ~call.pending /\ archive.written /\ call.archive = archive)
        => /\ Len(call.resolved) = Len(archive.exported)
           /\ \A k \in 1..Len(call.resolved) :
                 /\ call.resolved[k].label = archive.exported[k].label
                 /\ call.resolved[k].initialTransform = archive.manifest[k].transform

----------------------------------------------------------------------------
(* ImportSpec: archives whose manifests name files that are in the container,  *)
(* files that are missing and files of an unsupported type, imported into a    *)
(* scene with uploads and loads.                                               *)

\* manifest entries: a .ply file and a .GLB file that are in the container, a
\* .ply file that is not, a .gltf file that is
PresentPly ==
    [fileName |-> <<"a", "_", "1", ".", "p", "l", "y">>, label |-> <<"a">>,
     transform |-> [position |-> 5, rotation |-> 30, scale |-> 1]]

PresentGlb ==
    [fileName |-> <<"b", ".", "G", "L", "B">>, label |-> <<"b">>,
     transform |-> [position |-> 7, rotation |-> 0, scale |-> 1]]

MissingPly ==
    [fileName |-> <<"c", ".", "p", "l", "y">>, label |-> <<"c">>,
     transform |-> [position |-> 5, rotation |-> 0, scale |-> 1]]

PresentGltf ==
    [fileName |-> <<"e", ".", "g", "l", "t", "f">>, label |-> <<"e">>,
     transform |-> [position |-> 7, rotation |-> 30, scale |-> 1]]

ManifestEntries == {PresentPly, PresentGlb, MissingPly, PresentGltf}

\* the files of the container, each with its content
ContainerFiles ==
    [n \in {PresentPly.fileName, PresentGlb.fileName, PresentGltf.fileName} |-> n]

Archives ==
    { [written |-> TRUE, intrinsics |-> defaultIntrinsics, manifest |-> m,
       files |-> ContainerFiles, exported |-> <<>>] :
        m \in UNION { [1..n -> ManifestEntries] : n \in 0..MaxEntries } }

HandleLoadScene == \E arch \in Archives : LoadSceneClear(arch)

ImportInit == SceneInit

ImportNext ==
    \/ PlacedUpload
    \/ PlacedLoadComplete
    \/ HandleLoadScene
    \/ LoadSceneResolve

ImportSpec == ImportInit /\ [][ImportNext]_vars

\* the entries of a manifest whose file is in the container and has a
\* supported extension
Usable(arch) ==
    SelectSeq(arch.manifest,
              LAMBDA e : e.fileName \in DOMAIN arch.files /\ Extension(e.fileName) \in {Ply, Glb})

\* C28: an import goes through every entry of the manifest: the list it sets
\* has one uploaded asset for each entry whose file is in the container with a
\* supported extension, in manifest order, with the entry's label and the
\* entry's placement as initial placement, and nothing for the other entries.
C28_ImportSkips ==
    /\ (call.op = "import" /\ ~call.pending)
          => /\ Len(call.resolved) = Len(Usable(call.archive))
             /\ \A k \in 1..Len(call.resolved) :
                   /\ call.resolved[k].source = "upload"
                   /\ call.resolved[k].visible
                   /\ call.resolved[k].label = Usable(call.archive)[k].label
                   /\ call.resolved[k].initialTransform = Usable(call.archive)[k].transform
                   /\ call.resolved[k].data = call.archive.files[Usable(call.archive)[k].fileName]
                   /\ \A j \in 1..Len(call.resolved) :
                         call.resolved[j].id = call.resolved[k].id => j = k
    /\ (log # <<>> /\ log[1].ev = "setAssets") => assets = call.resolved

\* an import whose manifest names a missing file before a usable one has just
\* set the list: the asset of the second entry
C28_Witness ==
    /\ call.op = "import"
    /\ ~call.pending
    /\ log # <<>>
    /\ log[1].ev = "setAssets"
    /\ call.archive.manifest = <<MissingPly, PresentGlb>>
    /\ Len(assets) = 1
    /\ assets[1].label = <<"b">>
    /\ assets[1].fileType = "glb"

\* C35: the active identity is none or the identity of a listed asset.
C35_ActiveListed == activeAssetId = None \/ activeAssetId \in AssetIds(assets)

----------------------------------------------------------------------------
(* FailSpec: imports that end in the catch block of handleLoadScene, in a      *)
(* scene with uploads and loads.                                               *)

\* files given to handleLoadScene: scene says whether the container holds
\* scene.json, json whether JSON.parse takes its text, assets what
\* manifest.assets is
ZipFiles ==
    { [scene |-> FALSE, json |-> FALSE, assets |-> "undefined"],
      [scene |-> TRUE, json |-> FALSE, assets |-> "undefined"],
      [scene |-> TRUE, json |-> TRUE, assets |-> "undefined"],
      [scene |-> TRUE, json |-> TRUE, assets |-> "object"],
      [scene |-> TRUE, json |-> TRUE, assets |-> "array"] }

\* the error handleLoadScene throws before it touches the scene
manifestError(file) ==
    IF ~file.scene THEN "scene.json not found in the zip file."
    ELSE IF ~file.json THEN "SyntaxError"
    ELSE IF file.assets # "array" THEN "Invalid scene.json format."
    ELSE "none"

\* handleLoadScene with a file whose manifest is missing or malformed:
\* setIsLoading(true), the throw, the alert of the catch block and
\* setIsLoading(false) of the finally block
LoadSceneThrow ==
    /\ ~ImportPending
    /\ \E file \in ZipFiles :
          /\ manifestError(file) # "none"
          /\ SettleScene(CommitAll([Working EXCEPT
                                       !.log = <<EventWith("import", "alert", NoObj, viewer,
                                                           manifestError(file))>>],
                                   TRUE, FALSE, FALSE, assets, activeAssetId,
                                   activeAssetTransform),
                         assets, activeAssetId, MaxLoads)
    /\ call' = [op |-> "import", archive |-> NoArchive, pending |-> FALSE, resolved |-> <<>>,
                failed |-> TRUE, before |-> SceneBefore]
    /\ isLoading' = FALSE
    /\ UNCHANGED <<nextId, bytes, i, last, dec, intrinsics, resp, archive>>

\* the entries of a manifest whose file handleLoadScene reads
Read(arch) == SelectSeq(arch.manifest, LAMBDA e : e.fileName \in DOMAIN arch.files)

\* handleLoadScene when assetFile.async("blob") of an entry rejects:
\* Promise.all rejects, the catch block alerts, the finally block does
\* setIsLoading(false)
LoadSceneFail ==
    /\ ImportPending
    /\ Read(call.archive) # <<>>
    /\ SettleScene(CommitAll([Working EXCEPT
                                 !.log = <<EventWith("import", "alert", NoObj, viewer,
                                                     "async")>>],
                             TRUE, FALSE, FALSE, assets, activeAssetId, activeAssetTransform),
                   assets, activeAssetId, MaxLoads)
    /\ call' = [call EXCEPT !.pending = FALSE, !.failed = TRUE]
    /\ isLoading' = FALSE
    /\ UNCHANGED <<nextId, bytes, i, last, dec, intrinsics, resp, archive>>

\* archives with at most one entry
FailArchives ==
    { [written |-> TRUE, intrinsics |-> defaultIntrinsics, manifest |-> m,
       files |-> ContainerFiles, exported |-> <<>>] :
        m \in {<<>>, <<PresentPly>>, <<MissingPly>>} }

LoadSceneBegin == \E arch \in FailArchives : LoadSceneClearFrom(arch, SceneBefore)

FailInit == SceneInit

FailNext ==
    \/ PlacedUpload
    \/ PlacedLoadComplete
    \/ LoadSceneBegin
    \/ LoadSceneResolve
    \/ LoadSceneThrow
    \/ LoadSceneFail

FailSpec == FailInit /\ [][FailNext]_vars

\* the import has just ended in its catch block
ImportFailed ==
    /\ call.op = "import"
    /\ call.failed
    /\ log # <<>>
    /\ log[1].by = "import"
    /\ log[1].ev = "alert"

\* C38: when handleLoadScene has ended in its error path, the asset list, the
\* active selection, the published placement and the intrinsics are the ones
\* the import started from.
C38_FailedImportUnchanged ==
    ImportFailed
        => /\ assets = call.before.assets
           /\ activeAssetId = call.before.activeAssetId
           /\ activeAssetTransform = call.before.activeAssetTransform
           /\ intrinsics = call.before.intrinsics

----------------------------------------------------------------------------
(* StartSpec: the Start button of the App with archive and visibility          *)
(* (src/unnamed/part_000), with uploads, loads and selection around it.        *)

\* the methods useImperativeHandle gives the viewer's ref
ThreeDViewerRef == {"getSceneData"}

WhiteSpace == {" ", "\t", "\n"}

\* String.prototype.trim
RECURSIVE TrimStart(_)
TrimStart(str) ==
    IF str # <<>> /\ Head(str) \in WhiteSpace THEN TrimStart(Tail(str)) ELSE str

RECURSIVE TrimEnd(_)
TrimEnd(str) ==
    IF str # <<>> /\ str[Len(str)] \in WhiteSpace
    THEN TrimEnd([k \in 1..(Len(str) - 1) |-> str[k]])
    ELSE str

Trim(str) == TrimEnd(TrimStart(str))

\* what the prompt field can hold when Start is clicked
Prompts == { <<>>, <<" ", "\t">>, <<"a">>, <<" ", "a", "\n">> }

\* handleStart up to its await: nothing for a blank prompt; else
\* setIsLoading(true), setResponseParts([]) and the call of
\* threeDViewerRef.current.clearScene(), which throws a TypeError when the ref
\* has no such method; after it the scene is cleared and the query is awaited
handleStart(prompt, methods) ==
    IF Trim(prompt) = <<>> THEN [stage |-> "ignored", cleared |-> FALSE]
    ELSE IF "clearScene" \notin methods THEN [stage |-> "thrown", cleared |-> FALSE]
    ELSE [stage |-> "awaiting", cleared |-> TRUE]

\* a click on Start (the button is disabled while isLoading)
HandleStart ==
    /\ ~isLoading
    /\ \E prompt \in Prompts :
          LET r == handleStart(prompt, ThreeDViewerRef)
              w == [Working EXCEPT !.log = <<EventWith("start", r.stage, NoObj, viewer, prompt)>>]
          IN IF r.stage = "ignored" THEN UNCHANGED vars
             ELSE /\ isLoading' = TRUE
                  /\ call' = [op |-> "start", stage |-> r.stage, prompt |-> prompt]
                  /\ IF r.cleared
                     THEN SettleScene(CommitAll(w, TRUE, activeAssetId # None, TRUE, <<>>, None,
                                                NoTransform),
                                      <<>>, None, MaxPlacedLoads)
                     ELSE SettleScene(CommitAll(w, TRUE, FALSE, FALSE, assets, activeAssetId,
                                                activeAssetTransform),
                                      assets, activeAssetId, MaxPlacedLoads)
                  /\ UNCHANGED <<nextId, bytes, i, last, dec, intrinsics, resp, archive>>

StartInit == SceneInit

StartNext ==
    \/ HandleStart
    \/ PlacedUpload
    \/ PlacedSelectAsset
    \/ PlacedLoadComplete
    \/ GuardTimeout

StartSpec == StartInit /\ [][StartNext]_vars

\* C36: the App is in the loading state only while a Start awaits its query,
\* whose continuation ends with setIsLoading(false).
C36_StartReturns == isLoading => (call.op = "start" /\ call.stage = "awaiting")

----------------------------------------------------------------------------
(* NameSpec: handleSaveScene on scenes of one or two uploaded assets whose     *)
(* loads have completed, over the file names and identities they can have.     *)

\* names of uploaded files
ExportedNames ==
    { <<"a", ".", "p", "l", "y">>, <<"a", ".", "P", "L", "Y">>, <<"a", ".", "g", "l", "b">>,
      <<"b", ".", "g", "l", "b">>, <<"a", ".", "g", "l", "t", "f">> }

\* asset lists in the order of creation: identities ascend
LoadedLists ==
    { <<UploadedAsset(a, n)>> : a \in Ids, n \in ExportedNames }
    \cup { <<UploadedAsset(a, n), UploadedAsset(b, o)>> :
             a \in Ids, b \in Ids, n \in ExportedNames, o \in ExportedNames }

\* the state after the uploads, the completed loads and a click that took the
\* selection off: every asset has its render object where onLoad put it
NameInit ==
    /\ assets \in { as \in LoadedLists : \A k \in 1..(Len(as) - 1) : as[k].id < as[k + 1].id }
    /\ activeAssetId = None
    /\ nextId = assets[Len(assets)].id + 1
    /\ viewer = [EmptyViewer EXCEPT
                    !.models = [a \in Ids |->
                                   IF \E k \in 1..Len(assets) : assets[k].id = a
                                   THEN [ser |-> a, id |-> a] ELSE NoObj],
                    !.scene = { [ser |-> assets[k].id, id |-> assets[k].id] :
                                  k \in 1..Len(assets) },
                    !.nextSer = assets[Len(assets)].id + 1]
    /\ log = <<>>
    /\ dec = NoDecoder
    /\ intrinsics = defaultIntrinsics
    /\ resp = NoResponse
    /\ activeAssetTransform = NoTransform
    /\ isUpdatingProgrammatically = FALSE
    /\ timeouts = 0
    /\ placement = [ser \in AssetIds(assets) |-> InitialPlacement(assets, ser)]
    /\ call = NoFileCall
    /\ archive = NoArchive
    /\ isLoading = FALSE
    /\ bytes = <<>>
    /\ i = 0
    /\ last = NoCall

NameNext == HandleSaveScene

NameSpec == NameInit /\ [][NameNext]_vars

\* C37: the entries of an exported manifest have file names that differ from
\* one another, and the archive holds one file per entry.
C37_DistinctFileNames ==
    archive.written
        => /\ \A j, k \in 1..Len(archive.manifest) :
                 j # k => archive.manifest[j].fileName # archive.manifest[k].fileName
           /\ Cardinality(DOMAIN archive.files) = Len(archive.manifest)

----------------------------------------------------------------------------
(* UploadSpec: batches of files of any name handed to handleFileUpload, with   *)
(* selections and deletions in between.                                        *)

\* a.ply, b.GLB, c.gltf and e.ply.txt
FileNames ==
    { <<"a", ".", "p", "l", "y">>,
      <<"b", ".", "G", "L", "B">>,
      <<"c", ".", "g", "l", "t", "f">>,
      <<"e", ".", "p", "l", "y", ".", "t", "x", "t">> }

Batches == UNION { [1..n -> FileNames] : n \in 1..MaxBatch }

\* handleFileUpload(files) and the commit that follows when it set state
UploadFiles ==
    \E files \in Batches :
      \E r \in {handleFileUpload(assets, activeAssetId, nextId, files)} :
           /\ r.nextId <= MaxAssets + 1
           /\ call' = [op |-> "upload", files |-> files, alerts |-> r.alerts,
                       before |-> [assets |-> assets, activeAssetId |-> activeAssetId],
                       after |-> [assets |-> r.assets, activeAssetId |-> r.activeAssetId]]
           /\ nextId' = r.nextId
           /\ IF r.set
              THEN SettleViewer(Commit(Fresh, TRUE, TRUE, r.assets, r.activeAssetId),
                                r.assets, r.activeAssetId)
              ELSE UNCHANGED <<assets, activeAssetId, viewer, log>>
           /\ UNCHANGED <<bytes, i, last, dec, intrinsics, resp, transformVars, archive, isLoading>>

UploadInit == SceneInit

UploadNext ==
    \/ UploadFiles
    \/ HandleSelectAsset
    \/ HandleDeleteAsset

UploadSpec == UploadInit /\ [][UploadNext]_vars

\* the file has one of the extensions handleFileUpload takes
HasSupportedExtension(name) == Extension(name) \in {Ply, Glb, Gltf}

\* C29: an upload rejects each file with an unsupported extension on its own
\* (one alert per such file, in batch order) and appends every supported file
\* of the batch, in batch order, behind the assets that were there; the
\* selection becomes the asset of the last supported file; a batch without a
\* supported file leaves list and selection as they were.
C29_UploadPerFile ==
    call.op = "upload" =>
        LET supported == SelectSeq(call.files, HasSupportedExtension)
            n == Len(call.before.assets)
        IN /\ call.alerts = SelectSeq(call.files, LAMBDA f : ~HasSupportedExtension(f))
           /\ Len(call.after.assets) = n + Len(supported)
           /\ \A k \in 1..n : call.after.assets[k] = call.before.assets[k]
           /\ \A k \in 1..Len(supported) :
                 /\ call.after.assets[n + k].label = supported[k]
                 /\ call.after.assets[n + k].data = supported[k]
                 /\ call.after.assets[n + k].source = "upload"
                 /\ call.after.assets[n + k].id \notin AssetIds(call.before.assets)
           /\ Cardinality(AssetIds(call.after.assets)) = Len(call.after.assets)
           /\ supported # <<>> =>
                 call.after.activeAssetId = call.after.assets[n + Len(supported)].id
           /\ supported = <<>> => call.after = call.before

\* a batch of an unsupported and then a supported file arrived while another
\* asset was listed and selected: the new asset is listed last and selected
C29_Witness ==
    /\ call.op = "upload"
    /\ Len(call.files) = 2
    /\ ~HasSupportedExtension(call.files[1])
    /\ HasSupportedExtension(call.files[2])
    /\ call.before.assets # <<>>
    /\ call.before.activeAssetId # None
    /\ Len(assets) = Len(call.before.assets) + 1
    /\ activeAssetId = assets[Len(assets)].id
    /\ activeAssetId # call.before.activeAssetId

\* C25: the object URL of a load request is released when the load completes,
\* by success or by failure, whether or not its identity is still listed: the
\* handler that ends a load revokes the URL of that load.
C25_CompletedLoadReleasesUrl ==
    (log # <<>> /\ log[1].ev \in {"onLoad", "onError"}) =>
        \E k \in 1..Len(log) :
            log[k].ev = "revokeObjectURL" /\ log[k].obj = log[1].obj

\* the identities tracked in modelsRef
Tracked == { a \in Ids : viewer.models[a] # NoObj }

\* C30: with every load succeeding, once no load is in flight (the list does
\* not change and nothing more is scheduled) the identities tracked in
\* modelsRef are the visible identities of the list, in whatever order the
\* loads completed.
C30_Converged ==
    viewer.loads = {} => Tracked = AssetIds(VisibleAssets(assets))

====
